---- MODULE Spec2Model ----
(***************************************************************************)
(* A model of krill (lib/krill.js): construction and validation of        *)
(* predicates, field substitution, evaluation and printing, and the       *)
(* predicate stream that filters records with a predicate.                *)
(*                                                                         *)
(* JavaScript values are tagged records.  Objects keep their properties   *)
(* in insertion order (the order of for..in), arrays keep their elements. *)
(* Whole object graphs (a tree with all its nodes) live in a heap cell;   *)
(* a Predicate refers to its tree and to its types object by address, so  *)
(* that two Predicates naming the same address share that object.         *)
(***************************************************************************)
EXTENDS Integers, Sequences, FiniteSets, TLC

VARIABLES heap, in_pred, in_types, p, last, pc,
          stream, written, pushed, events

\* the predicate stream, the records written to it, the records it pushed
\* downstream and the events it emitted
svars == <<stream, written, pushed, events>>

vars == <<heap, in_pred, in_types, p, last, pc, stream, written, pushed, events>>

(***************************************************************************)
(* Bounds                                                                  *)
(***************************************************************************)
\* numeric constants of the predicates range over 0..MaxNum
MaxNum == 1
\* logical nodes drawn as inputs have 2..MaxArity operands
MaxArity == 2
\* at most MaxRecords records are written to a predicate stream
MaxRecords == 3

(***************************************************************************)
(* JavaScript values                                                       *)
(***************************************************************************)
JSNum(n) == [t |-> "number", n |-> n]
JSStr(s) == [t |-> "string", s |-> s]
JSBool(b) == [t |-> "boolean", b |-> b]
JSNull == [t |-> "null"]
JSUndef == [t |-> "undefined"]
JSObj(props) == [t |-> "object", props |-> props]
JSArr(elems) == [t |-> "array", elems |-> elems]
Prop(k, v) == [k |-> k, v |-> v]

\* typeof
TypeOf(v) ==
    CASE v.t = "number" -> "number"
      [] v.t = "string" -> "string"
      [] v.t = "boolean" -> "boolean"
      [] v.t = "undefined" -> "undefined"
      [] OTHER -> "object"

\* x instanceof Object
InstanceOfObject(v) == v.t \in {"object", "array"}

\* x instanceof Array
InstanceOfArray(v) == v.t = "array"

\* ToBoolean, as used by the "!" operator
Truthy(v) ==
    CASE v.t = "number" -> v.n # 0
      [] v.t = "string" -> v.s # ""
      [] v.t = "boolean" -> v.b
      [] v.t = "undefined" -> FALSE
      [] v.t = "null" -> FALSE
      [] OTHER -> TRUE

Digit(d) ==
    CASE d = 0 -> "0" [] d = 1 -> "1" [] d = 2 -> "2" [] d = 3 -> "3"
      [] d = 4 -> "4" [] d = 5 -> "5" [] d = 6 -> "6" [] d = 7 -> "7"
      [] d = 8 -> "8" [] d = 9 -> "9"

RECURSIVE NatToString(_)
NatToString(n) ==
    IF n < 10 THEN Digit(n) ELSE NatToString(n \div 10) \o Digit(n % 10)

\* String(n) for an integer n
NumToString(n) == IF n < 0 THEN "-" \o NatToString(0 - n) ELSE NatToString(n)

\* the enumerable keys of a value, in for..in order
RECURSIVE IndexKeys(_)
IndexKeys(n) == IF n = 0 THEN <<>> ELSE Append(IndexKeys(n - 1), NumToString(n - 1))

KeysOf(v) ==
    CASE v.t = "object" -> [i \in 1..Len(v.props) |-> v.props[i].k]
      [] v.t = "array" -> IndexKeys(Len(v.elems))
      [] OTHER -> <<>>

\* obj.hasOwnProperty(key), for plain objects
HasOwn(v, key) ==
    v.t = "object" /\ \E i \in 1..Len(v.props) : v.props[i].k = key

\* obj[key], for an own property of a plain object
GetProp(v, key) ==
    IF HasOwn(v, key)
    THEN v.props[CHOOSE i \in 1..Len(v.props) : v.props[i].k = key].v
    ELSE JSUndef

\* members that every plain object inherits from Object.prototype: a
\* function, and the accessor of the prototype
ObjectPrototypeKeys == {"constructor", "__proto__"}
Inherited(key) == [t |-> "inherited", k |-> key]

\* key in obj
In(v, key) == HasOwn(v, key) \/ (v.t = "object" /\ key \in ObjectPrototypeKeys)

\* obj[key], read through the prototype chain
GetMember(v, key) ==
    IF HasOwn(v, key) THEN GetProp(v, key)
    ELSE IF v.t = "object" /\ key \in ObjectPrototypeKeys THEN Inherited(key)
    ELSE JSUndef

(***************************************************************************)
(* jsprim                                                                  *)
(***************************************************************************)
\* jsprim.isEmpty: no enumerable key
isEmpty(v) == Len(KeysOf(v)) = 0

\* jsprim.deepCopy: plain objects and arrays are rebuilt, member by member
RECURSIVE deepCopy(_)
deepCopy(v) ==
    CASE v.t = "object" ->
           JSObj([i \in 1..Len(v.props) |-> Prop(v.props[i].k, deepCopy(v.props[i].v))])
      [] v.t = "array" ->
           JSArr([i \in 1..Len(v.elems) |-> deepCopy(v.elems[i])])
      [] OTHER -> v

\* key.indexOf('.') and the two substr() calls of jsprim.pluck, for the
\* field names of the model: <<head, rest>>, or <<>> when there is no dot
DotSplit(key) ==
    CASE key = "n.h" -> <<"n", "h">>
      [] OTHER -> <<>>

pluck_keyOnly(obj, key) ==
    IF obj.t # "object" THEN JSUndef
    ELSE IF HasOwn(obj, key) THEN GetProp(obj, key)
    ELSE JSUndef

pluck_pathOnly(obj, key) ==
    IF obj.t # "object" THEN JSUndef
    ELSE IF DotSplit(key) = <<>> THEN GetProp(obj, key)
    ELSE IF ~HasOwn(obj, DotSplit(key)[1]) THEN JSUndef
    ELSE GetProp(GetProp(obj, DotSplit(key)[1]), DotSplit(key)[2])

\* jsprim.pluck: the key itself if the object has it, else the dotted path
RECURSIVE pluck(_, _)
pluck(obj, key) ==
    IF obj.t # "object" THEN JSUndef
    ELSE IF HasOwn(obj, key) THEN GetProp(obj, key)
    ELSE IF DotSplit(key) = <<>> THEN JSUndef
    ELSE IF ~HasOwn(obj, DotSplit(key)[1]) THEN JSUndef
    ELSE pluck(GetProp(obj, DotSplit(key)[1]), DotSplit(key)[2])

(***************************************************************************)
(* Operators (krillOps)                                                    *)
(***************************************************************************)
RelationalOps == {"le", "lt", "ge", "gt", "eq", "ne"}
LogicalOps == {"and", "or"}
OrderingOps == {"le", "lt", "ge", "gt"}

\* key in krillOps
InKrillOps(key) == key \in RelationalOps \cup LogicalOps

\* krillOps[key].types
OpTypes(key) ==
    IF key \in OrderingOps THEN {"number"} ELSE {"number", "string", "boolean"}

\* krillOps[key].names.cstyle
CStyleName(key) ==
    CASE key = "le" -> "<=" [] key = "lt" -> "<" [] key = "ge" -> ">="
      [] key = "gt" -> ">" [] key = "eq" -> "==" [] key = "ne" -> "!="
      [] key = "and" -> "&&" [] key = "or" -> "||"

(***************************************************************************)
(* Primitive functions                                                     *)
(***************************************************************************)
Ok == "ok"

krillPrimTrivial(pred) == isEmpty(pred)

\* the operator at the root of pred: [err, key]
krillPrimGetKey(pred) ==
    LET keys == KeysOf(pred) IN
    IF Len(keys) > 1 THEN [err |-> "expected one key", key |-> ""]
    ELSE IF Len(keys) < 1 THEN [err |-> "missing key", key |-> ""]
    ELSE [err |-> Ok, key |-> keys[1]]

krillPrimValidateRel_anyConstant(pred, key) ==
    LET operands == GetProp(pred, key) IN
    IF ~Truthy(operands) THEN "missing operands"
    ELSE IF ~InstanceOfArray(operands) THEN "expected array"
    ELSE IF Len(operands.elems) # 2 THEN "array must have 2 elements"
    ELSE IF TypeOf(operands.elems[1]) # "string" THEN "field is not a string"
    ELSE Ok

krillPrimValidateRel(pred, key) ==
    LET operands == GetProp(pred, key) IN
    IF ~Truthy(operands) THEN "missing operands"
    ELSE IF ~InstanceOfArray(operands) THEN "expected array"
    ELSE IF Len(operands.elems) # 2 THEN "array must have 2 elements"
    ELSE IF TypeOf(operands.elems[1]) # "string" THEN "field is not a string"
    ELSE IF TypeOf(operands.elems[2]) \notin {"number", "string", "boolean"}
         THEN "constant is not a string, number, or boolean"
    ELSE Ok

FirstErrorAt_last(errs) ==
    IF \A i \in 1..Len(errs) : errs[i] = Ok THEN 0
    ELSE CHOOSE i \in 1..Len(errs) :
            errs[i] # Ok /\ \A j \in (i + 1)..Len(errs) : errs[j] = Ok

\* the iteration at which a loop over errs throws: the index of the first
\* element that is an error, 0 when the loop completes
FirstErrorAt(errs) ==
    IF \A i \in 1..Len(errs) : errs[i] = Ok THEN 0
    ELSE CHOOSE i \in 1..Len(errs) :
            errs[i] # Ok /\ \A j \in 1..(i - 1) : errs[j] = Ok

\* the error of the first element of errs that is one, else Ok
FirstError(errs) ==
    IF FirstErrorAt(errs) = 0 THEN Ok ELSE errs[FirstErrorAt(errs)]

RECURSIVE krillPrimValidateSyntax(_)
krillPrimValidateLog(pred, key) ==
    LET operands == GetProp(pred, key) IN
    IF ~Truthy(operands) THEN "missing operands"
    ELSE IF ~InstanceOfArray(operands) THEN "expected array"
    ELSE IF Len(operands.elems) < 2 THEN "expected at least 2 elements in array"
    ELSE FirstError([i \in 1..Len(operands.elems) |->
                        krillPrimValidateSyntax(operands.elems[i])])

krillPrimValidateSyntax(pred) ==
    IF ~InstanceOfObject(pred) THEN "must be an object"
    ELSE IF krillPrimTrivial(pred) THEN Ok
    ELSE LET k == krillPrimGetKey(pred) IN
         IF k.err # Ok THEN k.err
         ELSE IF ~InKrillOps(k.key) THEN "unknown operator"
         ELSE IF k.key \in LogicalOps THEN krillPrimValidateLog(pred, k.key)
         ELSE krillPrimValidateRel(pred, k.key)

\* the predicate that the error of krillPrimValidateSyntax(pred) names (%j)
RECURSIVE SyntaxErrorPred(_)
SyntaxErrorPred(pred) ==
    LET k == krillPrimGetKey(pred)
        operands == GetProp(pred, k.key)
    IN  IF /\ InstanceOfObject(pred) /\ ~krillPrimTrivial(pred)
           /\ k.err = Ok /\ k.key \in LogicalOps
           /\ Truthy(operands) /\ InstanceOfArray(operands)
           /\ Len(operands.elems) >= 2
        THEN SyntaxErrorPred(operands.elems[
                 FirstErrorAt([i \in 1..Len(operands.elems) |->
                     krillPrimValidateSyntax(operands.elems[i])])])
        ELSE pred

\* pred[key], the operand array of a validated operator node
Operands(pred) == pred.props[1].v.elems
KeyOf(pred) == pred.props[1].k

\* the node of pred that the operand indices of path lead to
RECURSIVE NodeAt(_, _)
NodeAt(pred, path) ==
    IF path = <<>> THEN pred ELSE NodeAt(Operands(pred)[Head(path)], Tail(path))

\* krillPrimWalk, for a predicate that has previously been validated: the
\* paths of the leaf predicates that func is applied to, in the order of
\* the calls
RECURSIVE krillPrimWalk(_)
RECURSIVE WalkOperands(_, _)
WalkOperands(pred, ii) ==
    IF ii > Len(Operands(pred)) THEN <<>>
    ELSE LET leaves == krillPrimWalk(Operands(pred)[ii]) IN
         [j \in 1..Len(leaves) |-> <<ii>> \o leaves[j]] \o WalkOperands(pred, ii + 1)

krillPrimWalk(pred) ==
    IF krillPrimTrivial(pred) THEN <<>>
    ELSE IF krillPrimGetKey(pred).key \in LogicalOps THEN WalkOperands(pred, 1)
    ELSE << <<>> >>

krillPrimValidateFieldType_noAgreement(fieldtypes, pred, key) ==
    LET field == Operands(pred)[1].s
        constant == Operands(pred)[2]
        actual_type == TypeOf(constant)
    IN  IF actual_type \notin OpTypes(key) THEN "operator cannot be applied"
        ELSE IF fieldtypes.t = "null" THEN Ok
        ELSE IF ~In(fieldtypes, field) THEN "field is not defined"
        ELSE Ok

krillPrimValidateFieldType_lookupFirst(fieldtypes, pred, key) ==
    LET field == Operands(pred)[1].s
        constant == Operands(pred)[2]
        actual_type == TypeOf(constant)
    IN  IF fieldtypes.t # "null" /\ ~In(fieldtypes, field) THEN "field is not defined"
        ELSE IF fieldtypes.t # "null" /\ GetMember(fieldtypes, field) # JSStr(actual_type)
             THEN "type mismatch"
        ELSE IF actual_type \notin OpTypes(key) THEN "operator cannot be applied"
        ELSE Ok

\* the checks of one leaf against the types of the fields
krillPrimValidateFieldType(fieldtypes, pred, key) ==
    LET field == Operands(pred)[1].s
        constant == Operands(pred)[2]
        actual_type == TypeOf(constant)
    IN  IF actual_type \notin OpTypes(key) THEN "operator cannot be applied"
        ELSE IF fieldtypes.t = "null" THEN Ok
        ELSE IF ~In(fieldtypes, field) THEN "field is not defined"
        ELSE IF GetMember(fieldtypes, field) # JSStr(actual_type) THEN "type mismatch"
        ELSE Ok

krillPrimValidateTypes(fieldtypes, pred) ==
    LET paths == krillPrimWalk(pred) IN
    FirstError([i \in 1..Len(paths) |->
        krillPrimValidateFieldType(fieldtypes, NodeAt(pred, paths[i]),
                                   KeyOf(NodeAt(pred, paths[i])))])

\* the leaf that the error of krillPrimValidateTypes(fieldtypes, pred) names
TypesErrorPred(fieldtypes, pred) ==
    LET paths == krillPrimWalk(pred) IN
    NodeAt(pred, paths[FirstErrorAt([i \in 1..Len(paths) |->
        krillPrimValidateFieldType(fieldtypes, NodeAt(pred, paths[i]),
                                   KeyOf(NodeAt(pred, paths[i])))])])

\* the forEachKey loop of createPredicate over the entries of types
ValidateTypeNames(types) ==
    FirstError([i \in 1..Len(types.props) |->
        IF types.props[i].v \notin {JSStr("string"), JSStr("number"), JSStr("boolean")}
        THEN "unknown type" ELSE Ok])

createPredicateCheck_typeNamesFirst(pred, types) ==
    LET syntax == krillPrimValidateSyntax(pred) IN
    IF types.t \notin {"undefined", "null"} /\ ValidateTypeNames(types) # Ok
    THEN ValidateTypeNames(types)
    ELSE IF syntax # Ok THEN syntax
    ELSE IF types.t \in {"undefined", "null"} THEN Ok
    ELSE krillPrimValidateTypes(types, pred)

createPredicateCheck_operatorsAlways(pred, types) ==
    LET syntax == krillPrimValidateSyntax(pred) IN
    IF syntax # Ok THEN syntax
    ELSE IF types.t \in {"undefined", "null"} THEN krillPrimValidateTypes(JSNull, pred)
    ELSE IF ValidateTypeNames(types) # Ok THEN ValidateTypeNames(types)
    ELSE krillPrimValidateTypes(types, pred)

createPredicateCheck_leavesFirst(pred, types) ==
    LET syntax == krillPrimValidateSyntax(pred) IN
    IF syntax # Ok THEN syntax
    ELSE IF types.t \in {"undefined", "null"} THEN Ok
    ELSE IF krillPrimValidateTypes(types, pred) # Ok
    THEN krillPrimValidateTypes(types, pred)
    ELSE ValidateTypeNames(types)

\* the checks of createPredicate; types is undefined when the argument is
\* omitted (arguments.length < 2)
createPredicateCheck(pred, types) ==
    LET syntax == krillPrimValidateSyntax(pred) IN
    IF syntax # Ok THEN syntax
    ELSE IF types.t \in {"undefined", "null"} THEN Ok
    ELSE IF ValidateTypeNames(types) # Ok THEN ValidateTypeNames(types)
    ELSE krillPrimValidateTypes(types, pred)

\* the predicate named by the error of createPredicate; the error of an
\* unknown type names an entry of types and no predicate
createPredicateErrorPred(pred, types) ==
    IF krillPrimValidateSyntax(pred) # Ok THEN SyntaxErrorPred(pred)
    ELSE IF types.t \in {"undefined", "null"} THEN JSUndef
    ELSE IF ValidateTypeNames(types) # Ok THEN JSUndef
    ELSE TypesErrorPred(types, pred)


(***************************************************************************)
(* Conversions and comparisons of JavaScript                               *)
(***************************************************************************)
\* String(v), as in string concatenation
JSToString(v) ==
    CASE v.t = "number" -> NumToString(v.n)
      [] v.t = "string" -> v.s
      [] v.t = "boolean" -> IF v.b THEN "true" ELSE "false"
      [] v.t = "null" -> "null"
      [] v.t = "undefined" -> "undefined"
      [] v.t = "object" -> "[object Object]"
      [] v.t = "array" /\ v.elems = <<>> -> ""

\* Number(s) for a string: [nan, n].  The empty string is 0, a decimal
\* numeral is its number, anything else is NaN.
StringToNumber(s) ==
    IF s = "" THEN [nan |-> FALSE, n |-> 0]
    ELSE IF \E n \in 0..(MaxNum + 1) : NumToString(n) = s
    THEN [nan |-> FALSE, n |-> CHOOSE n \in 0..(MaxNum + 1) : NumToString(n) = s]
    ELSE [nan |-> TRUE, n |-> 0]

LooseEq_strict(a, b) == a = b

\* a == b (abstract equality)
RECURSIVE LooseEq(_, _)
LooseEq(a, b) ==
    IF a.t = b.t THEN
        CASE a.t = "number" -> a.n = b.n
          [] a.t = "string" -> a.s = b.s
          [] a.t = "boolean" -> a.b = b.b
          [] a.t \in {"null", "undefined"} -> TRUE
          [] OTHER -> FALSE
    ELSE IF a.t \in {"null", "undefined"} /\ b.t \in {"null", "undefined"} THEN TRUE
    ELSE IF a.t \in {"null", "undefined"} \/ b.t \in {"null", "undefined"} THEN FALSE
    ELSE IF a.t = "number" /\ b.t = "string"
         THEN ~StringToNumber(b.s).nan /\ a.n = StringToNumber(b.s).n
    ELSE IF a.t = "string" /\ b.t = "number"
         THEN ~StringToNumber(a.s).nan /\ StringToNumber(a.s).n = b.n
    ELSE IF a.t = "boolean" THEN LooseEq(JSNum(IF a.b THEN 1 ELSE 0), b)
    ELSE IF b.t = "boolean" THEN LooseEq(a, JSNum(IF b.b THEN 1 ELSE 0))
    ELSE IF a.t \in {"object", "array"} THEN LooseEq(JSStr(JSToString(a)), b)
    ELSE LooseEq(a, JSStr(JSToString(b)))

(***************************************************************************)
(* Evaluation                                                              *)
(***************************************************************************)
OpEval_strictGe(key, a, b) ==
    CASE key = "le" -> a.n <= b.n
      [] key = "lt" -> a.n < b.n
      [] key = "ge" -> a.n > b.n
      [] key = "gt" -> a.n > b.n
      [] key = "eq" -> LooseEq(a, b)
      [] key = "ne" -> ~LooseEq(a, b)

\* krillOps[key].eval(a, b)
OpEval(key, a, b) ==
    CASE key = "le" -> a.n <= b.n
      [] key = "lt" -> a.n < b.n
      [] key = "ge" -> a.n >= b.n
      [] key = "gt" -> a.n > b.n
      [] key = "eq" -> LooseEq(a, b)
      [] key = "ne" -> ~LooseEq(a, b)

\* krillPrimEval on a predicate whose fields have been replaced with
\* values: [err, val]
RECURSIVE krillPrimEval(_)
RECURSIVE EvalAnd(_, _)
RECURSIVE EvalOr(_, _)
EvalOr_allOperands(pred, ii) ==
    LET rs == [i \in 1..Len(Operands(pred)) |-> krillPrimEval(Operands(pred)[i])] IN
    IF \E i \in 1..Len(rs) : rs[i].err # Ok
    THEN rs[CHOOSE i \in 1..Len(rs) : rs[i].err # Ok /\ \A j \in 1..(i - 1) : rs[j].err = Ok]
    ELSE [err |-> Ok, val |-> \E i \in 1..Len(rs) : rs[i].val]

EvalAnd(pred, ii) ==
    IF ii > Len(Operands(pred)) THEN [err |-> Ok, val |-> TRUE]
    ELSE LET r == krillPrimEval(Operands(pred)[ii]) IN
         IF r.err # Ok THEN r
         ELSE IF ~r.val THEN [err |-> Ok, val |-> FALSE]
         ELSE EvalAnd(pred, ii + 1)

EvalOr(pred, ii) ==
    IF ii > Len(Operands(pred)) THEN [err |-> Ok, val |-> FALSE]
    ELSE LET r == krillPrimEval(Operands(pred)[ii]) IN
         IF r.err # Ok THEN r
         ELSE IF r.val THEN [err |-> Ok, val |-> TRUE]
         ELSE EvalOr(pred, ii + 1)

krillPrimEval_noAssert(pred) ==
    LET k == krillPrimGetKey(pred) IN
    IF k.err # Ok THEN [err |-> k.err, val |-> FALSE]
    ELSE IF k.key = "and" THEN EvalAnd(pred, 1)
    ELSE IF k.key = "or" THEN EvalOr(pred, 1)
    ELSE IF k.key \in OrderingOps
            /\ (TypeOf(Operands(pred)[1]) # "number"
                \/ TypeOf(Operands(pred)[2]) # "number")
         THEN [err |-> Ok, val |-> FALSE]
    ELSE [err |-> Ok, val |-> OpEval(k.key, Operands(pred)[1], Operands(pred)[2])]

krillPrimEval(pred) ==
    LET k == krillPrimGetKey(pred) IN
    IF k.err # Ok THEN [err |-> k.err, val |-> FALSE]
    ELSE IF k.key = "and" THEN EvalAnd(pred, 1)
    ELSE IF k.key = "or" THEN EvalOr(pred, 1)
    ELSE IF k.key \in OrderingOps
            /\ (TypeOf(Operands(pred)[1]) # "number"
                \/ TypeOf(Operands(pred)[2]) # "number")
         THEN [err |-> "AssertionError", val |-> FALSE]
    ELSE [err |-> Ok, val |-> OpEval(k.key, Operands(pred)[1], Operands(pred)[2])]

(***************************************************************************)
(* Field substitution                                                      *)
(***************************************************************************)
SetField_keepField(pred, path, value) == pred

\* pred with the field of the leaf at path set to value
RECURSIVE SetField(_, _, _)
SetField(pred, path, value) ==
    IF path = <<>>
    THEN JSObj(<<Prop(KeyOf(pred), JSArr(<<value, Operands(pred)[2]>>))>>)
    ELSE JSObj(<<Prop(KeyOf(pred),
            JSArr([i \in 1..Len(Operands(pred)) |->
                    IF i = Head(path)
                    THEN SetField(Operands(pred)[i], Tail(path), value)
                    ELSE Operands(pred)[i]]))>>)

\* value === undefined
IsMissing_falsy(value) == ~Truthy(value)
IsMissing(value) == value = JSUndef

\* the walk of replaceFields over newpred, leaf by leaf from the i-th on:
\* [err, pred], pred being newpred as the walk leaves it, also when it throws
RECURSIVE ReplaceWalk(_, _, _, _)
ReplaceWalk(newpred, xlate, paths, i) ==
    IF i > Len(paths) THEN [err |-> Ok, pred |-> newpred]
    ELSE LET field == Operands(NodeAt(newpred, paths[i]))[1]
             value == IF field.t = "string" THEN pluck(xlate, field.s) ELSE JSUndef
         IN  IF field.t # "string"
             THEN [err |-> "AssertionError", pred |-> newpred]
             ELSE IF IsMissing(value)
             THEN [err |-> "no translation for field", pred |-> newpred]
             ELSE ReplaceWalk(SetField(newpred, paths[i], value), xlate, paths, i + 1)

(***************************************************************************)
(* Printing                                                                *)
(***************************************************************************)
\* elts.join(sep)
RECURSIVE Join(_, _)
Join(elts, sep) ==
    IF elts = <<>> THEN ""
    ELSE IF Len(elts) = 1 THEN elts[1]
    ELSE elts[1] \o sep \o Join(Tail(elts), sep)

krillPrimPrintRelCStyle_noQuotes(pred, key) ==
    JSToString(Operands(pred)[1]) \o " " \o CStyleName(key) \o " "
      \o JSToString(Operands(pred)[2])

krillPrimPrintRelCStyle(pred, key) ==
    JSToString(Operands(pred)[1]) \o " " \o CStyleName(key) \o " "
      \o (IF TypeOf(Operands(pred)[2]) = "string" THEN "\"" ELSE "")
      \o JSToString(Operands(pred)[2])
      \o (IF TypeOf(Operands(pred)[2]) = "string" THEN "\"" ELSE "")

RECURSIVE krillPrimPrintCStyle(_)
krillPrimPrintLogCStyle(pred, key) ==
    Join([i \in 1..Len(Operands(pred)) |->
            "(" \o krillPrimPrintCStyle(Operands(pred)[i]) \o ")"],
         " " \o CStyleName(key) \o " ")

\* for a predicate that has been validated: sanityCheck finds no key or one
krillPrimPrintCStyle(pred) ==
    IF Len(KeysOf(pred)) = 0 THEN "1"
    ELSE IF KeyOf(pred) \in LogicalOps THEN krillPrimPrintLogCStyle(pred, KeyOf(pred))
    ELSE krillPrimPrintRelCStyle(pred, KeyOf(pred))

\* krillOps[key].names.ldap, a string for every operator but "ne"
LDAPName(key) ==
    CASE key = "le" -> "<=" [] key = "lt" -> "<" [] key = "ge" -> ">="
      [] key = "gt" -> ">" [] key = "eq" -> "="
      [] key = "and" -> "&" [] key = "or" -> "|"

buildLdapNotEqualFilter_bang(lhs, rhs) == "(" \o lhs \o "!=" \o rhs \o ")"

buildLdapNotEqualFilter(lhs, rhs) == "(!(" \o lhs \o "=" \o rhs \o "))"

krillPrimPrintRelLDAP(pred, key) ==
    IF key = "ne"
    THEN buildLdapNotEqualFilter(JSToString(Operands(pred)[1]),
                                 JSToString(Operands(pred)[2]))
    ELSE "(" \o JSToString(Operands(pred)[1]) \o LDAPName(key)
             \o JSToString(Operands(pred)[2]) \o ")"

\* [err, str]
RECURSIVE krillPrimPrintLDAP(_)
RECURSIVE PrintOperandsLDAP(_, _)
PrintOperandsLDAP(pred, ii) ==
    IF ii > Len(Operands(pred)) THEN [err |-> Ok, str |-> ""]
    ELSE LET r == krillPrimPrintLDAP(Operands(pred)[ii]) IN
         IF r.err # Ok THEN r
         ELSE LET rest == PrintOperandsLDAP(pred, ii + 1) IN
              IF rest.err # Ok THEN rest
              ELSE [err |-> Ok, str |-> r.str \o rest.str]

krillPrimPrintLogLDAP(pred, key) ==
    LET elts == PrintOperandsLDAP(pred, 1) IN
    IF elts.err # Ok THEN elts
    ELSE [err |-> Ok, str |-> "(" \o LDAPName(key) \o elts.str \o ")"]

krillPrimPrintLDAP(pred) ==
    IF Len(KeysOf(pred)) # 1 THEN [err |-> "AssertionError", str |-> ""]
    ELSE IF KeyOf(pred) \in LogicalOps THEN krillPrimPrintLogLDAP(pred, KeyOf(pred))
    ELSE [err |-> Ok, str |-> krillPrimPrintRelLDAP(pred, KeyOf(pred))]

(***************************************************************************)
(* Inputs                                                                  *)
(***************************************************************************)
Rel(op, field, constant) == JSObj(<<Prop(op, JSArr(<<JSStr(field), constant>>))>>)
Log(op, operands) == JSObj(<<Prop(op, JSArr(operands))>>)
TrivialPred == JSObj(<<>>)
EmptyArray == JSArr(<<>>)

Fields == {"a", "b", "n.h"}
Constants == {JSNum(n) : n \in 0..MaxNum} \cup {JSStr("x"), JSBool(TRUE)}

LeafPreds == {Rel(op, f, c) : op \in RelationalOps, f \in Fields, c \in Constants}

\* the operands that logical nodes are built from
OperandPreds ==
    { TrivialPred, Rel("lt", "a", JSNum(MaxNum)),
      Rel("ne", "b", JSStr("x")), Rel("ge", "b", JSStr("x")) }

LogicalPreds ==
    {Log(op, operands) : op \in LogicalOps,
        operands \in UNION {[1..n -> OperandPreds] : n \in 2..MaxArity}}

InnerPreds == {TrivialPred, Rel("gt", "a", JSNum(0)), Rel("eq", "b", JSStr("x"))}

Other(op) == IF op = "and" THEN "or" ELSE "and"

NestedPreds ==
    {Log(op, <<x, Log(Other(op), <<y, z>>)>>) :
        op \in LogicalOps, x \in InnerPreds, y \in InnerPreds, z \in InnerPreds}
    \cup
    {Log(op, <<Log(Other(op), <<y, z>>), x>>) :
        op \in LogicalOps, x \in InnerPreds, y \in InnerPreds, z \in InnerPreds}

\* inputs that are not predicates
MalformedPreds ==
    { JSNum(23), JSStr("23"), JSBool(TRUE), JSNull,
      JSArr(<<JSStr("foo")>>),
      JSArr(<<TrivialPred, TrivialPred>>),
      JSObj(<<Prop("foo", JSNum(1))>>),
      JSObj(<<Prop("foo", JSArr(<<JSNum(1), JSNum(2)>>))>>),
      JSObj(<<Prop("and", JSNum(1))>>),
      JSObj(<<Prop("and", JSNull)>>),
      Log("and", <<>>),
      Log("and", <<TrivialPred>>),
      JSObj(<<Prop("or", JSNum(1))>>),
      Log("or", <<>>),
      Log("or", <<TrivialPred, JSStr("foo")>>),
      Log("or", <<JSObj(<<Prop("foo", JSNum(1))>>), Rel("eq", "a", JSNum(1))>>),
      Log("and", <<Rel("eq", "a", JSNum(1)), Log("or", <<TrivialPred>>)>>),
      JSObj(<<Prop("eq", TrivialPred)>>),
      JSObj(<<Prop("eq", JSNum(0))>>),
      JSObj(<<Prop("eq", JSArr(<<>>))>>),
      JSObj(<<Prop("eq", JSArr(<<JSStr("foo")>>))>>),
      JSObj(<<Prop("eq", JSArr(<<JSStr("foo"), JSStr("bar"), JSStr("baz")>>))>>),
      JSObj(<<Prop("eq", JSArr(<<JSNum(1), JSNum(2)>>))>>),
      JSObj(<<Prop("lt", JSArr(<<JSBool(TRUE), JSNum(2)>>))>>),
      JSObj(<<Prop("eq", JSArr(<<JSStr("a"), JSNull>>))>>),
      JSObj(<<Prop("ne", JSArr(<<JSStr("a"), TrivialPred>>))>>),
      JSObj(<<Prop("eq", JSArr(<<JSStr("a"), JSArr(<<JSStr("x")>>)>>))>>),
      JSObj(<<Prop("eq", JSArr(<<JSStr("a"), JSNum(1)>>)),
              Prop("ne", JSArr(<<JSStr("b"), JSStr("x")>>))>>),
      Log("and", <<Rel("lt", "a", JSStr("x")),
                   JSObj(<<Prop("eq", JSArr(<<JSStr("a")>>))>>)>>),
      Log("or", <<Rel("eq", "a", JSNum(0)),
                  JSObj(<<Prop("eq", JSArr(<<JSStr("a")>>))>>),
                  JSNum(MaxNum)>>) }

\* an array with no element, alone and as an operand
ArrayPreds ==
    { EmptyArray,
      Log("and", <<EmptyArray, Rel("eq", "a", JSNum(MaxNum))>>),
      Log("or", <<Rel("lt", "a", JSNum(MaxNum)), EmptyArray>>) }

\* predicates whose field has the name of a member of Object.prototype
InheritedNamePreds ==
    { Rel("eq", "__proto__", JSNum(MaxNum)),
      Rel("ne", "constructor", JSStr("x")),
      Log("or", <<Rel("lt", "a", JSNum(MaxNum)), Rel("eq", "__proto__", JSStr("x"))>>),
      Log("and", <<Rel("eq", "constructor", JSStr("x")), Rel("gt", "a", JSNum(0))>>) }

\* a field compared against two constants, with another field in between
RepeatedFieldPreds ==
    { Log("or", <<Rel("lt", "a", JSNum(0)), Rel("le", "b", JSNum(MaxNum)),
                  Rel("gt", "a", JSNum(MaxNum))>>),
      Log("and", <<Rel("ne", "b", JSStr("x")),
                   Log("or", <<Rel("eq", "a", JSNum(MaxNum)), Rel("eq", "b", JSNum(0))>>)>>) }

InputPreds ==
    {TrivialPred} \cup LeafPreds \cup LogicalPreds \cup NestedPreds \cup ArrayPreds
        \cup InheritedNamePreds \cup RepeatedFieldPreds \cup MalformedPreds

TypesOf(a, b, nh) ==
    JSObj(<<Prop("a", JSStr(a)), Prop("b", JSStr(b)), Prop("n.h", JSStr(nh))>>)

\* the types argument: omitted, null, or an object
InputTypes ==
    { JSUndef, JSNull,
      TypesOf("number", "string", "string"),
      TypesOf("string", "number", "boolean"),
      JSObj(<<Prop("a", JSStr("number"))>>),
      JSObj(<<Prop("a", JSStr("number")), Prop("c", JSStr("numeric"))>>) }

\* the objects given to eval and replaceFields
ValuesA == {JSUndef, JSStr("x"), JSStr("1"), JSBool(FALSE)} \cup {JSNum(n) : n \in 0..(MaxNum + 1)}
ValuesB == {JSUndef, JSStr("x"), JSNum(0)}
FalsyAndOtherB == {JSStr(""), JSBool(TRUE), JSNull}

\* { a: va, b: vb }, leaving out the keys whose value is undefined
ObjectOf(va, vb) ==
    JSObj((IF va = JSUndef THEN <<>> ELSE <<Prop("a", va)>>)
          \o (IF vb = JSUndef THEN <<>> ELSE <<Prop("b", vb)>>))

NestedValues ==
    { JSObj(<<Prop("a", JSNum(MaxNum)), Prop("b", JSStr("x")),
              Prop("n", JSObj(<<Prop("h", JSStr("x"))>>))>>),
      JSObj(<<Prop("a", JSNum(0)), Prop("b", JSStr("y")),
              Prop("n", JSObj(<<Prop("h", JSStr("y"))>>))>>),
      JSObj(<<Prop("a", JSNum(MaxNum)), Prop("b", JSStr("x")),
              Prop("n", JSObj(<<>>))>>),
      JSObj(<<Prop("a", JSNum(MaxNum)), Prop("b", JSStr("x")),
              Prop("n.h", JSStr("x")),
              Prop("n", JSObj(<<Prop("h", JSStr("y"))>>))>>),
      JSObj(<<Prop("n", JSStr("x"))>>),
      JSObj(<<Prop("n.h", JSUndef), Prop("n", JSObj(<<Prop("h", JSStr("x"))>>))>>),
      JSObj(<<Prop("a", JSStr("a")), Prop("b", JSStr("b")), Prop("n.h", JSStr("n.h"))>>) }

\* the translations whose result the caller keeps as its predicate
KeptTranslations ==
    { JSObj(<<Prop("a", JSNum(MaxNum)), Prop("b", JSStr("x")),
              Prop("n", JSObj(<<Prop("h", JSStr("x"))>>))>>) }

InputValues ==
    {ObjectOf(va, vb) : va \in ValuesA, vb \in ValuesB}
    \cup {ObjectOf(JSNum(MaxNum), vb) : vb \in FalsyAndOtherB}
    \cup NestedValues


(***************************************************************************)
(* The heap and the Predicate class                                        *)
(***************************************************************************)
Cells == <<"t1", "t2", "t3">>
Addrs == {"in_pred", "in_types"} \cup {Cells[i] : i \in 1..Len(Cells)}
Free == [t |-> "free"]
Ref(addr) == [t |-> "ref", addr |-> addr]

\* the value a variable or member holds: the object it refers to, or itself
Deref(h, v) == IF v.t = "ref" THEN h[v.addr] ELSE v

\* the cell of a new object
Alloc(h) == Cells[CHOOSE i \in 1..Len(Cells) :
                    h[Cells[i]] = Free /\ \A j \in 1..(i - 1) : h[Cells[j]] # Free]

\* new Predicate(pred, types)
Predicate(pred, types) ==
    [t |-> "Predicate", p_pred |-> pred,
     p_types |-> IF Truthy(types) THEN types ELSE JSNull]

\* the cells a value refers to
RefsOf(v) ==
    CASE v.t = "ref" -> {v.addr}
      [] v.t = "Predicate" ->
           {v.p_pred.addr} \cup (IF v.p_types.t = "ref" THEN {v.p_types.addr} ELSE {})
      [] OTHER -> {}

\* garbage collection: the objects nothing refers to are gone
Collect(h, roots) == [a \in Addrs |-> IF a \in roots THEN h[a] ELSE Free]

CopiedPredCell_sameObject(h, pred) == pred.addr

\* the cell of the deep copy that createPredicate gives the Predicate
CopiedPredCell(h, pred) == Alloc(h)

NewPredCell_inPlace(h, self) == self.p_pred.addr

\* the cell of newpred in replaceFields, a deep copy of this.p_pred
NewPredCell(h, self) == Alloc(h)

Predicate_trivial_noLeaf(h, self) == krillPrimWalk(h[self.p_pred.addr]) = <<>>

\* Predicate.prototype.trivial
Predicate_trivial(h, self) == krillPrimTrivial(h[self.p_pred.addr])

\* Predicate.prototype.toCStyleString
Predicate_toCStyleString(h, self) == krillPrimPrintCStyle(h[self.p_pred.addr])

Predicate_toLDAPFilterString_emptyString(h, self) ==
    IF Predicate_trivial(h, self)
    THEN [err |-> Ok, str |-> ""]
    ELSE krillPrimPrintLDAP(h[self.p_pred.addr])

\* Predicate.prototype.toLDAPFilterString: [err, str]
Predicate_toLDAPFilterString(h, self) ==
    IF Predicate_trivial(h, self)
    THEN [err |-> "Cannot serialize empty predicate", str |-> ""]
    ELSE krillPrimPrintLDAP(h[self.p_pred.addr])

\* a key that is an array index: Object.keys and for..in list these first,
\* in ascending order, before the other keys in the order they were added
IsIndexKey(k) == \E n \in 0..(MaxNum + 1) : k = NumToString(n)

RECURSIVE IndexKeysFrom(_, _)
IndexKeysFrom(keys, n) ==
    IF n > MaxNum + 1 THEN <<>>
    ELSE (IF \E j \in 1..Len(keys) : keys[j] = NumToString(n)
          THEN <<NumToString(n)>> ELSE <<>>) \o IndexKeysFrom(keys, n + 1)

OwnKeyOrder(keys) ==
    IndexKeysFrom(keys, 0) \o SelectSeq(keys, LAMBDA k : ~IsIndexKey(k))

\* fields[field] = true for every leaf from the i-th on: the own keys of
\* fields in the order they were added; assigning a primitive to __proto__
\* adds no key
RECURSIVE FieldKeys(_, _, _, _)
FieldKeys(pred, paths, i, keys) ==
    IF i > Len(paths) THEN keys
    ELSE LET field == JSToString(Operands(NodeAt(pred, paths[i]))[1]) IN
         FieldKeys(pred, paths, i + 1,
            IF field = "__proto__" \/ \E j \in 1..Len(keys) : keys[j] = field
            THEN keys
            ELSE Append(keys, field))

\* Predicate.prototype.fields
Predicate_fields(h, self) ==
    LET pred == h[self.p_pred.addr]
        keys == OwnKeyOrder(FieldKeys(pred, krillPrimWalk(pred), 1, <<>>))
    IN  JSArr([i \in 1..Len(keys) |-> JSStr(keys[i])])

\* the walk of fieldsAndValues() from the i-th leaf on: [err, props], props
\* the own properties of fieldNamesToValues in the order they were added.
\* valuesList is read through the prototype chain: for a field named like a
\* member of Object.prototype it is neither undefined nor an array
RECURSIVE FieldValues(_, _, _, _)
FieldValues(pred, paths, i, props) ==
    IF i > Len(paths) THEN [err |-> Ok, props |-> props]
    ELSE LET field == JSToString(Operands(NodeAt(pred, paths[i]))[1])
             value == Operands(NodeAt(pred, paths[i]))[2]
             valuesList == GetMember(JSObj(props), field)
         IN  IF valuesList = JSUndef
             THEN FieldValues(pred, paths, i + 1,
                              Append(props, Prop(field, JSArr(<<value>>))))
             ELSE IF valuesList.t # "array"
             THEN [err |-> "AssertionError", props |-> props]
             ELSE FieldValues(pred, paths, i + 1,
                    [j \in 1..Len(props) |->
                        IF props[j].k = field
                        THEN Prop(field, JSArr(Append(props[j].v.elems, value)))
                        ELSE props[j]])

\* Predicate.prototype.fieldsAndValues: [err, ret]
Predicate_fieldsAndValues(h, self) ==
    LET pred == h[self.p_pred.addr]
        r == FieldValues(pred, krillPrimWalk(pred), 1, <<>>)
        keys == OwnKeyOrder([j \in 1..Len(r.props) |-> r.props[j].k])
    IN  IF r.err # Ok THEN [err |-> r.err, ret |-> JSUndef]
        ELSE [err |-> Ok,
              ret |-> JSObj([j \in 1..Len(keys) |->
                                Prop(keys[j], GetProp(JSObj(r.props), keys[j]))])]

\* Predicate.prototype.replaceFields: [heap, err, ret]
Predicate_replaceFields(h, self, xlate) ==
    LET addr == NewPredCell(h, self)
        h1 == [h EXCEPT ![addr] = deepCopy(h[self.p_pred.addr])]
        w == ReplaceWalk(h1[addr], xlate, krillPrimWalk(h1[addr]), 1)
    IN  [heap |-> [h1 EXCEPT ![addr] = w.pred],
         err |-> w.err,
         ret |-> IF w.err = Ok THEN Predicate(Ref(addr), self.p_types) ELSE JSUndef]

Predicate_eval_noTrivialCase(h, self, obj) ==
    LET expr == Predicate_replaceFields(h, self, obj) IN
    IF expr.err # Ok THEN expr
    ELSE LET e == krillPrimEval(expr.heap[expr.ret.p_pred.addr]) IN
         [heap |-> expr.heap, err |-> e.err,
          ret |-> IF e.err = Ok THEN JSBool(e.val) ELSE JSUndef]

\* Predicate.prototype.eval: [heap, err, ret]
Predicate_eval(h, self, obj) ==
    IF Predicate_trivial(h, self)
    THEN [heap |-> h, err |-> Ok, ret |-> JSBool(TRUE)]
    ELSE LET expr == Predicate_replaceFields(h, self, obj) IN
         IF expr.err # Ok THEN expr
         ELSE LET e == krillPrimEval(expr.heap[expr.ret.p_pred.addr]) IN
              [heap |-> expr.heap, err |-> e.err,
               ret |-> IF e.err = Ok THEN JSBool(e.val) ELSE JSUndef]

(***************************************************************************)
(* The program: a caller that builds a predicate and uses it               *)
(***************************************************************************)
Call(op, arg, err, ret) == [op |-> op, arg |-> arg, err |-> err, ret |-> ret]

\* a call of createPredicate that threw err, whose message names pred
Thrown(err, pred) ==
    [op |-> "createPredicate", arg |-> JSUndef, err |-> err, ret |-> JSUndef,
     pred |-> pred]

InitWith(preds, typess) ==
    \E pred \in preds, types \in typess :
        /\ in_pred = IF InstanceOfObject(pred) THEN Ref("in_pred") ELSE pred
        /\ in_types = IF InstanceOfObject(types) THEN Ref("in_types") ELSE types
        /\ heap = [a \in Addrs |->
                    IF a = "in_pred" /\ InstanceOfObject(pred) THEN pred
                    ELSE IF a = "in_types" /\ InstanceOfObject(types) THEN types
                    ELSE Free]
        /\ p = JSUndef
        /\ last = Call("none", JSUndef, Ok, JSUndef)
        /\ pc = "start"
        /\ stream = JSUndef
        /\ written = <<>>
        /\ pushed = <<>>
        /\ events = <<>>

Init == InitWith(InputPreds, InputTypes)

\* the heap after a call that leaves p as np and returns ret
After(h, np, ret) ==
    Collect(h, RefsOf(in_pred) \cup RefsOf(in_types) \cup RefsOf(np) \cup RefsOf(ret))

\* p = createPredicate(in_pred, in_types), or createPredicate(in_pred)
CreatePredicate ==
    /\ pc = "start"
    /\ pc' = "returned"
    /\ LET err == createPredicateCheck(Deref(heap, in_pred), Deref(heap, in_types))
           addr == CopiedPredCell(heap, in_pred)
           np == Predicate(Ref(addr), in_types)
       IN  IF err # Ok
           THEN /\ last' = Thrown(err, createPredicateErrorPred(
                                        Deref(heap, in_pred), Deref(heap, in_types)))
                /\ UNCHANGED <<heap, p>>
           ELSE /\ heap' = [heap EXCEPT ![addr] = deepCopy(heap[in_pred.addr])]
                /\ p' = np
                /\ last' = Call("createPredicate", JSUndef, Ok, np)
    /\ UNCHANGED <<in_pred, in_types>>
    /\ UNCHANGED svars

\* p.trivial()
Trivial ==
    /\ pc = "idle"
    /\ pc' = "returned"
    /\ last' = Call("trivial", JSUndef, Ok, JSBool(Predicate_trivial(heap, p)))
    /\ heap' = After(heap, p, JSUndef)
    /\ UNCHANGED <<in_pred, in_types, p>>
    /\ UNCHANGED svars

\* p.toCStyleString()
ToCStyleString ==
    /\ pc = "idle"
    /\ pc' = "returned"
    /\ last' = Call("toCStyleString", JSUndef, Ok, JSStr(Predicate_toCStyleString(heap, p)))
    /\ heap' = After(heap, p, JSUndef)
    /\ UNCHANGED <<in_pred, in_types, p>>
    /\ UNCHANGED svars

\* p.toLDAPFilterString()
ToLDAPFilterString ==
    /\ pc = "idle"
    /\ pc' = "returned"
    /\ LET r == Predicate_toLDAPFilterString(heap, p) IN
       last' = Call("toLDAPFilterString", JSUndef, r.err,
                    IF r.err = Ok THEN JSStr(r.str) ELSE JSUndef)
    /\ heap' = After(heap, p, JSUndef)
    /\ UNCHANGED <<in_pred, in_types, p>>
    /\ UNCHANGED svars

\* p.fields()
FieldsCall ==
    /\ pc = "idle"
    /\ pc' = "returned"
    /\ last' = Call("fields", JSUndef, Ok, Predicate_fields(heap, p))
    /\ heap' = After(heap, p, JSUndef)
    /\ UNCHANGED <<in_pred, in_types, p>>
    /\ UNCHANGED svars

\* p.fieldsAndValues()
FieldsAndValues ==
    /\ pc = "idle"
    /\ pc' = "returned"
    /\ LET r == Predicate_fieldsAndValues(heap, p) IN
       last' = Call("fieldsAndValues", JSUndef, r.err, r.ret)
    /\ heap' = After(heap, p, JSUndef)
    /\ UNCHANGED <<in_pred, in_types, p>>
    /\ UNCHANGED svars

\* p.replaceFields(xlate)
ReplaceFields ==
    /\ pc = "idle"
    /\ pc' = "returned"
    /\ \E xlate \in InputValues :
        LET r == Predicate_replaceFields(heap, p, xlate) IN
        /\ last' = Call("replaceFields", xlate, r.err, r.ret)
        /\ heap' = After(r.heap, p, r.ret)
    /\ UNCHANGED <<in_pred, in_types, p>>
    /\ UNCHANGED svars

\* p.eval(obj)
Eval ==
    /\ pc = "idle"
    /\ pc' = "returned"
    /\ \E obj \in InputValues :
        LET r == Predicate_eval(heap, p, obj) IN
        /\ last' = Call("eval", obj, r.err, r.ret)
        /\ heap' = After(r.heap, p, r.ret)
    /\ UNCHANGED <<in_pred, in_types, p>>
    /\ UNCHANGED svars

\* the caller is done with what the last call returned or threw
Discard ==
    /\ pc = "returned"
    /\ p # JSUndef
    /\ pc' = "idle"
    /\ last' = Call("none", JSUndef, Ok, JSUndef)
    /\ heap' = After(heap, p, JSUndef)
    /\ UNCHANGED <<in_pred, in_types, p>>
    /\ UNCHANGED svars

\* p = p.replaceFields(xlate): the caller keeps the Predicate returned
Reassign ==
    /\ pc = "returned"
    /\ last.op = "replaceFields"
    /\ last.err = Ok
    /\ last.arg \in KeptTranslations
    /\ pc' = "idle"
    /\ p' = last.ret
    /\ last' = Call("none", JSUndef, Ok, JSUndef)
    /\ heap' = After(heap, last.ret, JSUndef)
    /\ UNCHANGED <<in_pred, in_types>>
    /\ UNCHANGED svars

Next ==
    \/ CreatePredicate
    \/ Discard
    \/ Reassign
    \/ Trivial
    \/ ToCStyleString
    \/ ToLDAPFilterString
    \/ FieldsCall
    \/ FieldsAndValues
    \/ ReplaceFields
    \/ Eval

Spec == Init /\ [][Next]_vars

(***************************************************************************)
(* The predicate stream                                                    *)
(***************************************************************************)
\* the predicates, types and records of the stream, after tst.stream
StreamPreds ==
    { TrivialPred,
      Log("or", <<Rel("eq", "b", JSStr("x")), Rel("gt", "a", JSNum(0))>>),
      Log("and", <<Rel("lt", "a", JSNum(MaxNum)), Rel("ne", "b", JSStr("x"))>>),
      Log("or", <<TrivialPred, Rel("eq", "b", JSStr("x"))>>),
      Rel("eq", "a", JSNum(0)),
      Rel("ge", "b", JSStr("x")) }

StreamTypes == {JSUndef, TypesOf("number", "string", "string")}

StreamRecords ==
    { ObjectOf(JSNum(0), JSStr("x")),
      ObjectOf(JSNum(0), JSStr("y")),
      ObjectOf(JSUndef, JSStr("y")),
      ObjectOf(JSNum(MaxNum), JSStr("y")) }

\* new PredicateStream({ predicate: predicate })
PredicateStream(predicate) ==
    [t |-> "PredicateStream", ps_predicate |-> predicate,
     ps_nentries |-> 0, ps_nerrors |-> 0, ps_nfilteredout |-> 0]

\* an event with its arguments
Event(name, record, error, count) ==
    [name |-> name, record |-> record, error |-> error, count |-> count]

InvalidObjectOrdinal_zeroBased(self) == self.ps_nentries - 1

\* this.ps_nentries, as emit('invalid_object', ...) reads it
InvalidObjectOrdinal(self) == self.ps_nentries

CountFiltered_never(self) == self

\* this.ps_nfilteredout++
CountFiltered(self) == [self EXCEPT !.ps_nfilteredout = self.ps_nfilteredout + 1]

CallbackArg_error(error) == JSStr(error)

\* the argument of callback(): none
CallbackArg(error) == JSUndef

\* _transform after the call of eval, r being its outcome: [self, heap,
\* push, emit, cberr], the records given to push(), the events emitted and
\* the argument of callback()
TransformOutcome(counted, record, r) ==
    IF r.err # Ok
    THEN [self |-> [counted EXCEPT !.ps_nerrors = counted.ps_nerrors + 1],
          heap |-> r.heap, push |-> <<>>,
          emit |-> <<Event("invalid_object", record, r.err,
                           InvalidObjectOrdinal(counted))>>,
          cberr |-> CallbackArg(r.err)]
    ELSE IF Truthy(r.ret)
    THEN [self |-> counted, heap |-> r.heap, push |-> <<record>>,
          emit |-> <<>>, cberr |-> CallbackArg(r.err)]
    ELSE [self |-> CountFiltered(counted), heap |-> r.heap, push |-> <<>>,
          emit |-> <<>>, cberr |-> CallbackArg(r.err)]

\* PredicateStream.prototype._transform for a non-null object
PredicateStream_transform(self, h, record) ==
    TransformOutcome([self EXCEPT !.ps_nentries = self.ps_nentries + 1], record,
                     Predicate_eval(h, self.ps_predicate, record))

\* PredicateStream.prototype.stats
PredicateStream_stats(self) ==
    JSObj(<<Prop("ninputs", JSNum(self.ps_nentries)),
            Prop("nerrors", JSNum(self.ps_nerrors)),
            Prop("nfilteredout", JSNum(self.ps_nfilteredout))>>)

\* the stream has emitted 'error': a Transform does so when callback() is
\* given an error, and takes no more records
Errored == \E i \in 1..Len(events) : events[i].name = "error"

\* stream = createPredicateStream({ predicate: p })
CreatePredicateStream ==
    /\ pc = "returned"
    /\ last.op = "createPredicate"
    /\ p # JSUndef
    /\ pc' = "streaming"
    /\ stream' = PredicateStream(p)
    /\ last' = Call("createPredicateStream", JSUndef, Ok, JSUndef)
    /\ heap' = After(heap, p, JSUndef)
    /\ UNCHANGED <<in_pred, in_types, p, written, pushed, events>>

\* the stream and its surroundings after _transform, t being its outcome
Written(record, t) ==
    /\ stream' = t.self
    /\ heap' = After(t.heap, p, JSUndef)
    /\ written' = Append(written, record)
    /\ pushed' = pushed \o t.push
    /\ events' = events \o t.emit
            \o (IF t.cberr # JSUndef
                THEN <<Event("error", JSUndef, t.cberr.s, 0)>> ELSE <<>>)
    /\ last' = Call("write", record, Ok, JSBool(TRUE))

\* stream.write(record): the record goes through _transform
Write ==
    /\ pc = "streaming"
    /\ Len(written) < MaxRecords
    /\ ~Errored
    /\ \E record \in StreamRecords :
        Written(record, PredicateStream_transform(stream, heap, record))
    /\ UNCHANGED <<in_pred, in_types, p, pc>>

\* stream.stats()
Stats ==
    /\ pc = "streaming"
    /\ last' = Call("stats", JSUndef, Ok, PredicateStream_stats(stream))
    /\ UNCHANGED <<heap, in_pred, in_types, p, pc, stream, written, pushed, events>>

StreamInit == InitWith(StreamPreds, StreamTypes)

StreamNext ==
    \/ CreatePredicate
    \/ CreatePredicateStream
    \/ Write
    \/ Stats

StreamSpec == StreamInit /\ [][StreamNext]_vars

(***************************************************************************)
(* A caller that changes its tree after createPredicate                    *)
(***************************************************************************)
SnapshotPreds ==
    { TrivialPred,
      Rel("eq", "a", JSNum(MaxNum)),
      Log("and", <<Rel("lt", "a", JSNum(MaxNum)), Rel("ne", "b", JSStr("x"))>>),
      Log("or", <<Log("and", <<Rel("gt", "a", JSNum(0)), Rel("eq", "b", JSStr("x"))>>),
                  TrivialPred>>),
      Log("and", <<Rel("eq", "a", JSNum(1))>>) }

SnapshotTypes == {JSUndef, TypesOf("number", "string", "string")}

\* what the caller makes of a tree that createPredicate accepted:
\* pred.eq = [ 'a', 0 ] on an empty one; else delete pred[key], the field
\* of the first leaf set to 'z', or pred[key].push({}) on a logical node
MutatedInputs(pred) ==
    IF krillPrimTrivial(pred) THEN {Rel("eq", "a", JSNum(0))}
    ELSE {TrivialPred}
         \cup (IF krillPrimWalk(pred) = <<>> THEN {}
               ELSE {SetField(pred, krillPrimWalk(pred)[1], JSStr("z"))})
         \cup (IF KeyOf(pred) \in LogicalOps /\ Len(Operands(pred)) <= MaxArity
               THEN {Log(KeyOf(pred), Append(Operands(pred), TrivialPred))}
               ELSE {})

\* the caller changes, once, the tree it gave to createPredicate
MutateInput ==
    /\ pc = "idle"
    /\ p # JSUndef
    /\ in_pred.t = "ref"
    /\ heap[in_pred.addr] = heap[p.p_pred.addr]
    /\ \E mutated \in MutatedInputs(heap[in_pred.addr]) :
          heap' = [heap EXCEPT ![in_pred.addr] = mutated]
    /\ UNCHANGED <<in_pred, in_types, p, last, pc>>
    /\ UNCHANGED svars

SnapshotInit == InitWith(SnapshotPreds, SnapshotTypes)

SnapshotNext ==
    \/ CreatePredicate
    \/ Discard
    \/ MutateInput
    \/ Trivial
    \/ ToCStyleString
    \/ ToLDAPFilterString
    \/ FieldsCall
    \/ FieldsAndValues
    \/ ReplaceFields
    \/ Eval

SnapshotSpec == SnapshotInit /\ [][SnapshotNext]_vars


(***************************************************************************)
(* Reference definitions for the properties                                *)
(***************************************************************************)
\* the tree of the caller's Predicate, and the arguments of createPredicate
ThisPred == heap[p.p_pred.addr]
InPred == Deref(heap, in_pred)
InTypes == Deref(heap, in_types)
Returned(op) == pc = "returned" /\ last.op = op

\* a well-formed tree: an object that is empty, or has one key that is an
\* operator with operands of the operator's shape
RECURSIVE WellFormed(_)
WellFormed(v) ==
    /\ v.t \in {"object", "array"}
    /\ \/ Len(KeysOf(v)) = 0
       \/ /\ v.t = "object"
          /\ Len(v.props) = 1
          /\ v.props[1].k \in {"lt", "le", "gt", "ge", "eq", "ne", "and", "or"}
          /\ v.props[1].v.t = "array"
          /\ IF v.props[1].k \in {"and", "or"}
             THEN /\ Len(v.props[1].v.elems) >= 2
                  /\ \A i \in 1..Len(v.props[1].v.elems) : WellFormed(v.props[1].v.elems[i])
             ELSE /\ Len(v.props[1].v.elems) = 2
                  /\ v.props[1].v.elems[1].t = "string"
                  /\ v.props[1].v.elems[2].t \in {"string", "number", "boolean"}

IsTrivialNode(v) == Len(KeysOf(v)) = 0
IsLogicalNode(v) == ~IsTrivialNode(v) /\ v.props[1].k \in {"and", "or"}
IsLeaf(v) == ~IsTrivialNode(v) /\ ~IsLogicalNode(v)
LeafOp(v) == v.props[1].k
LeafField(v) == v.props[1].v.elems[1].s
LeafConstant(v) == v.props[1].v.elems[2]
Children(v) == v.props[1].v.elems

\* the relational leaves of a well-formed tree, at any depth
RECURSIVE RefLeaves(_)
RefLeaves(v) ==
    IF IsTrivialNode(v) THEN {}
    ELSE IF IsLogicalNode(v)
    THEN UNION {RefLeaves(Children(v)[i]) : i \in 1..Len(Children(v))}
    ELSE {v}

\* every node is an operator node
RECURSIVE AllOperatorNodes(_)
AllOperatorNodes(v) ==
    /\ ~IsTrivialNode(v)
    /\ IsLogicalNode(v) => \A i \in 1..Len(Children(v)) : AllOperatorNodes(Children(v)[i])

\* some operand of a logical node, at any depth, is a trivial node
HasNestedTrivial(v) == ~IsTrivialNode(v) /\ ~AllOperatorNodes(v)

IsOrdering(op) == op \in {"lt", "le", "gt", "ge"}

\* obj has a defined value for every field of the tree
SuppliesAll(v, obj) == \A leaf \in RefLeaves(v) : pluck(obj, LeafField(leaf)) # JSUndef

\* ... and a number for the fields used with lt, le, gt, ge
SuppliesNumbers(v, obj) ==
    \A leaf \in RefLeaves(v) :
        IsOrdering(LeafOp(leaf)) => pluck(obj, LeafField(leaf)).t = "number"

\* the constants of lt, le, gt, ge are numbers
NumberConstants(v) ==
    \A leaf \in RefLeaves(v) : IsOrdering(LeafOp(leaf)) => LeafConstant(leaf).t = "number"

\* Number(v) of a primitive: [nan, n]
RefToNumber(v) ==
    CASE v.t = "number" -> [nan |-> FALSE, n |-> v.n]
      [] v.t = "boolean" -> [nan |-> FALSE, n |-> IF v.b THEN 1 ELSE 0]
      [] v.t = "string" -> StringToNumber(v.s)

\* the comparison of a supplied value (left) with a constant (right)
RefCompare(op, a, b) ==
    CASE op = "eq" -> LooseEq(a, b)
      [] op = "ne" -> ~LooseEq(a, b)
      [] OTHER ->
           LET x == RefToNumber(a)
               y == RefToNumber(b)
           IN  /\ ~x.nan
               /\ ~y.nan
               /\ CASE op = "lt" -> x.n < y.n
                    [] op = "le" -> x.n <= y.n
                    [] op = "gt" -> x.n > y.n
                    [] op = "ge" -> x.n >= y.n

\* the reference value of a predicate under an assignment
RECURSIVE RefEval(_, _)
RefEval(v, obj) ==
    IF IsTrivialNode(v) THEN TRUE
    ELSE IF LeafOp(v) = "and" THEN \A i \in 1..Len(Children(v)) : RefEval(Children(v)[i], obj)
    ELSE IF LeafOp(v) = "or" THEN \E i \in 1..Len(Children(v)) : RefEval(Children(v)[i], obj)
    ELSE RefCompare(LeafOp(v), pluck(obj, LeafField(v)), LeafConstant(v))


(***************************************************************************)
(* Properties                                                              *)
(***************************************************************************)
\* the last call was eval on a well-formed predicate that is trivial or has
\* operator nodes only, with a value for every field and numbers for the
\* fields of lt, le, gt, ge
EvalOfOperatorTree ==
    /\ Returned("eval")
    /\ WellFormed(ThisPred)
    /\ IsTrivialNode(ThisPred) \/ AllOperatorNodes(ThisPred)
    /\ SuppliesAll(ThisPred, last.arg)
    /\ SuppliesNumbers(ThisPred, last.arg)

\* C1, as stated: on a predicate of operator nodes only (or the trivial
\* predicate) and an assignment supplying every field, with numbers for the
\* fields of lt, le, gt, ge, eval returns the reference boolean.
C1_EvalIsReference ==
    EvalOfOperatorTree =>
        last.err = Ok /\ last.ret = JSBool(RefEval(ThisPred, last.arg))

\* C1, amended: the same, for predicates whose lt, le, gt, ge leaves have
\* number constants; eval then returns the reference boolean.
C1_EvalIsReferenceForNumberConstants ==
    (EvalOfOperatorTree /\ NumberConstants(ThisPred)) =>
        last.err = Ok /\ last.ret = JSBool(RefEval(ThisPred, last.arg))

\* eval returned true for an "and" of an lt leaf and an ne leaf
C1_Witness ==
    /\ EvalOfOperatorTree
    /\ NumberConstants(ThisPred)
    /\ IsLogicalNode(ThisPred)
    /\ LeafOp(ThisPred) = "and"
    /\ \E leaf \in RefLeaves(ThisPred) : LeafOp(leaf) = "lt"
    /\ \E leaf \in RefLeaves(ThisPred) : LeafOp(leaf) = "ne"
    /\ last.ret = JSBool(TRUE)

\* C2: on a non-trivial predicate, eval raises "no translation for field"
\* exactly when some field of the tree, reached by the evaluation or not,
\* has no defined value in the assignment; a falsy value is a value.
C2_NoTranslationIffMissing ==
    (Returned("eval") /\ WellFormed(ThisPred) /\ ~IsTrivialNode(ThisPred)) =>
        /\ (last.err = "no translation for field") <=> ~SuppliesAll(ThisPred, last.arg)
        /\ ~SuppliesAll(ThisPred, last.arg) => last.ret = JSUndef

\* eval raised the error for an "and" whose first operand is false under the
\* assignment and whose second operand has the missing field
C2_Witness ==
    /\ Returned("eval")
    /\ ThisPred = Log("and", <<Rel("lt", "a", JSNum(MaxNum)), Rel("ne", "b", JSStr("x"))>>)
    /\ last.arg = ObjectOf(JSNum(MaxNum), JSUndef)
    /\ last.err = "no translation for field"
    /\ ~RefEval(Children(ThisPred)[1], last.arg)
    /\ last.err = "no translation for field"

\* C3: on a predicate with a trivial node as an operand of and/or, and an
\* assignment supplying every field with correctly typed values, eval takes
\* the trivial node as true, returns a boolean and raises no error.
C3_NestedTrivialIsTrue ==
    (/\ Returned("eval")
     /\ WellFormed(ThisPred)
     /\ HasNestedTrivial(ThisPred)
     /\ SuppliesAll(ThisPred, last.arg)
     /\ SuppliesNumbers(ThisPred, last.arg)
     /\ NumberConstants(ThisPred)) =>
        last.err = Ok /\ last.ret = JSBool(RefEval(ThisPred, last.arg))


C5_EmptyArrayRejected ==
    (Returned("createPredicate") /\ InPred = EmptyArray) =>
        last.err # Ok /\ p = JSUndef

\* the types object is one whose entries are all string, number or boolean
ValidTypes ==
    /\ in_types.t = "ref"
    /\ \A i \in 1..Len(InTypes.props) :
          InTypes.props[i].v \in {JSStr("string"), JSStr("number"), JSStr("boolean")}

\* the operator of the leaf does not accept its constant, or the schema does
\* not have its field, or declares another type than the constant's
LeafViolates(types, leaf) ==
    \/ IsOrdering(LeafOp(leaf)) /\ LeafConstant(leaf).t # "number"
    \/ \A i \in 1..Len(types.props) : types.props[i].k # LeafField(leaf)
    \/ \E i \in 1..Len(types.props) :
          /\ types.props[i].k = LeafField(leaf)
          /\ types.props[i].v # JSStr(LeafConstant(leaf).t)

\* C6: given a well-formed tree and a schema of string/number/boolean
\* entries, createPredicate fails exactly when some leaf, at any depth, has a
\* constant its operator does not accept, a field the schema does not have,
\* or a constant of another type than the schema declares for the field.
C6_FailsIffLeafViolates ==
    (Returned("createPredicate") /\ ValidTypes /\ WellFormed(InPred)) =>
        /\ (last.err # Ok) <=> \E leaf \in RefLeaves(InPred) : LeafViolates(InTypes, leaf)
        /\ (last.err = Ok) <=> (p # JSUndef)

\* createPredicate raised a type error for a nested tree whose only
\* violation is the declared type of a field of an inner leaf
C6_Witness ==
    /\ Returned("createPredicate")
    /\ ValidTypes
    /\ InPred = Log("and", <<TrivialPred,
                   Log("or", <<TrivialPred, Rel("eq", "b", JSStr("x"))>>)>>)
    /\ GetProp(InTypes, "b") = JSStr("number")
    /\ last.err = "type mismatch"
    /\ p = JSUndef

\* some leaf applies lt, le, gt or ge to a constant that is not a number
HasOrderingOfNonNumber(v) ==
    \E leaf \in RefLeaves(v) : IsOrdering(LeafOp(leaf)) /\ LeafConstant(leaf).t # "number"

\* C7: given a schema, createPredicate rejects a leaf that applies lt, le,
\* gt or ge to a constant that is not a number, whatever the schema says of
\* the field; the error of such a leaf is that of the operator, also when
\* the field is declared with the constant's type or is not in the schema.
C7_OrderingOfNonNumberRejected ==
    (/\ Returned("createPredicate")
     /\ in_types.t = "ref"
     /\ WellFormed(InPred)
     /\ HasOrderingOfNonNumber(InPred)) =>
        /\ last.err # Ok
        /\ p = JSUndef
        /\ (ValidTypes /\ IsLeaf(InPred)) => last.err = "operator cannot be applied"

\* createPredicate rejected lt of a string constant on a field that the
\* schema declares a string, with the error of the operator
C7_Witness ==
    /\ Returned("createPredicate")
    /\ InPred = Rel("lt", "b", JSStr("x"))
    /\ in_types.t = "ref"
    /\ GetProp(InTypes, "b") = JSStr("string")
    /\ last.err = "operator cannot be applied"
    /\ p = JSUndef


\* C8: no call changes the tree of a Predicate: while the caller's Predicate
\* is the same, every step, a call that fails part-way included, leaves its
\* tree as it was.
C8_TreeNeverChanges ==
    [][(p # JSUndef /\ p' = p) => heap'[p.p_pred.addr] = heap[p.p_pred.addr]]_vars

\* replaceFields failed after it had replaced the field of the first leaf:
\* the mapping has a value for that field and none for a later one
C8_Witness ==
    /\ Returned("replaceFields")
    /\ last.err = "no translation for field"
    /\ WellFormed(ThisPred)
    /\ IsLogicalNode(ThisPred)
    /\ IsLeaf(Children(ThisPred)[1])
    /\ pluck(last.arg, LeafField(Children(ThisPred)[1])) # JSUndef
    /\ ThisPred = InPred

\* C9: the Predicate that replaceFields returns has neither its tree nor its
\* types object in common with the receiver.
C9_NothingShared ==
    (Returned("replaceFields") /\ last.err = Ok) =>
        /\ last.ret.p_pred # p.p_pred
        /\ last.ret.p_types.t = "ref" => last.ret.p_types # p.p_types

\* the rendering of a constant: a string in double quotes, a number or a
\* boolean bare
RefConstant(c) ==
    CASE c.t = "string" -> "\"" \o c.s \o "\""
      [] c.t = "number" -> NumToString(c.n)
      [] c.t = "boolean" -> IF c.b THEN "true" ELSE "false"

RefToken(op) ==
    CASE op = "lt" -> "<" [] op = "le" -> "<=" [] op = "gt" -> ">" [] op = "ge" -> ">="
      [] op = "eq" -> "==" [] op = "ne" -> "!=" [] op = "and" -> "&&" [] op = "or" -> "||"

\* the reference rendering, the operands of a logical node from the i-th on
RECURSIVE RefCStyle(_)
RECURSIVE RefCStyleOperands(_, _)
RefCStyleOperands(v, i) ==
    "(" \o RefCStyle(Children(v)[i]) \o ")"
      \o (IF i = Len(Children(v)) THEN ""
          ELSE " " \o RefToken(LeafOp(v)) \o " " \o RefCStyleOperands(v, i + 1))

RefCStyle(v) ==
    IF IsTrivialNode(v) THEN "1"
    ELSE IF IsLogicalNode(v) THEN RefCStyleOperands(v, 1)
    ELSE LeafField(v) \o " " \o RefToken(LeafOp(v)) \o " " \o RefConstant(LeafConstant(v))

\* C10: toCStyleString of a validated predicate is the reference rendering.
C10_CStyleIsReference ==
    (Returned("toCStyleString") /\ WellFormed(ThisPred)) =>
        last.err = Ok /\ last.ret = JSStr(RefCStyle(ThisPred))

\* toCStyleString returned (1) && (b != "x") for { and: [ {}, { ne: [ b, x ] } ] }
C10_Witness ==
    /\ Returned("toCStyleString")
    /\ ThisPred = Log("and", <<TrivialPred, Rel("ne", "b", JSStr("x"))>>)
    /\ last.ret = JSStr("(1) && (b != \"x\")")

\* the LDAP rendering of a constant: its text, with no quotes
RefLDAPValue(c) ==
    CASE c.t = "string" -> c.s
      [] c.t = "number" -> NumToString(c.n)
      [] c.t = "boolean" -> IF c.b THEN "true" ELSE "false"

RefLDAPToken(op) ==
    CASE op = "lt" -> "<" [] op = "le" -> "<=" [] op = "gt" -> ">" [] op = "ge" -> ">="
      [] op = "eq" -> "="

\* the reference LDAP rendering of a tree of operator nodes, the operands of
\* a logical node from the i-th on
RECURSIVE RefLDAP(_)
RECURSIVE RefLDAPOperands(_, _)
RefLDAPOperands(v, i) ==
    IF i > Len(Children(v)) THEN ""
    ELSE RefLDAP(Children(v)[i]) \o RefLDAPOperands(v, i + 1)

RefLDAP(v) ==
    IF IsLogicalNode(v)
    THEN "(" \o (IF LeafOp(v) = "and" THEN "&" ELSE "|") \o RefLDAPOperands(v, 1) \o ")"
    ELSE IF LeafOp(v) = "ne"
    THEN "(!(" \o LeafField(v) \o "=" \o RefLDAPValue(LeafConstant(v)) \o "))"
    ELSE "(" \o LeafField(v) \o RefLDAPToken(LeafOp(v))
             \o RefLDAPValue(LeafConstant(v)) \o ")"

\* C11: toLDAPFilterString of a validated predicate with no trivial node is
\* the reference rendering: (field<op>value) for a leaf, (!(field=value))
\* for ne, (&...) or (|...) around the operands' renderings for and, or.
C11_LDAPIsReference ==
    (Returned("toLDAPFilterString") /\ WellFormed(ThisPred) /\ AllOperatorNodes(ThisPred)) =>
        last.err = Ok /\ last.ret = JSStr(RefLDAP(ThisPred))

\* toLDAPFilterString returned (&(a<n)(!(b=x))) for
\* { and: [ { lt: [ a, n ] }, { ne: [ b, x ] } ] }
C11_Witness ==
    /\ Returned("toLDAPFilterString")
    /\ ThisPred = Log("and", <<Rel("lt", "a", JSNum(MaxNum)), Rel("ne", "b", JSStr("x"))>>)
    /\ last.ret = JSStr("(&(a<" \o NumToString(MaxNum) \o ")(!(b=x)))")

\* C12: toLDAPFilterString raises an error, and returns nothing, exactly when
\* the tree has a trivial node, at the top or as an operand at any depth;
\* otherwise it returns a string.
C12_LDAPErrorIffTrivialNode ==
    (Returned("toLDAPFilterString") /\ WellFormed(ThisPred)) =>
        /\ (last.err # Ok) <=> ~AllOperatorNodes(ThisPred)
        /\ last.err # Ok => last.ret = JSUndef
        /\ last.err = Ok => last.ret.t = "string"

\* toLDAPFilterString raised an error for a predicate whose trivial node is
\* the second operand of an "or" under an "and"
C12_Witness ==
    /\ Returned("toLDAPFilterString")
    /\ ThisPred = Log("and", <<Rel("gt", "a", JSNum(0)),
                              Log("or", <<Rel("eq", "b", JSStr("x")), TrivialPred>>)>>)
    /\ last.err # Ok
    /\ last.ret = JSUndef

\* the field names of the relational leaves of a well-formed tree
RefFieldNames(v) == {LeafField(leaf) : leaf \in RefLeaves(v)}

\* the elements of an array are pairwise different
NoDuplicates(elems) ==
    \A i \in 1..Len(elems) : \A j \in 1..Len(elems) : elems[i] = elems[j] => i = j

\* C13: fields() returns the field names of the relational leaves of the
\* tree, each once: none for the trivial predicate, and none for a trivial
\* node under and/or.
C13_FieldsAreLeafFields ==
    (Returned("fields") /\ WellFormed(ThisPred)) =>
        /\ last.err = Ok
        /\ last.ret.t = "array"
        /\ NoDuplicates(last.ret.elems)
        /\ {last.ret.elems[i] : i \in 1..Len(last.ret.elems)}
             = {JSStr(f) : f \in RefFieldNames(ThisPred)}

\* the constants compared against field f, in left-to-right depth-first
\* order of the leaves
RECURSIVE RefValuesOf(_, _)
RECURSIVE RefValuesOfOperands(_, _, _)
RefValuesOfOperands(v, f, i) ==
    IF i > Len(Children(v)) THEN <<>>
    ELSE RefValuesOf(Children(v)[i], f) \o RefValuesOfOperands(v, f, i + 1)

RefValuesOf(v, f) ==
    IF IsTrivialNode(v) THEN <<>>
    ELSE IF IsLogicalNode(v) THEN RefValuesOfOperands(v, f, 1)
    ELSE IF LeafField(v) = f THEN <<LeafConstant(v)>> ELSE <<>>

\* C14: fieldsAndValues() returns an object whose keys are the field names
\* of the leaves, each mapped to the list of the constants compared against
\* it in left-to-right depth-first leaf order, duplicates kept.
C14_FieldsAndValuesInLeafOrder ==
    (Returned("fieldsAndValues") /\ WellFormed(ThisPred)) =>
        /\ last.err = Ok
        /\ last.ret.t = "object"
        /\ NoDuplicates(KeysOf(last.ret))
        /\ {KeysOf(last.ret)[i] : i \in 1..Len(KeysOf(last.ret))} = RefFieldNames(ThisPred)
        /\ \A f \in RefFieldNames(ThisPred) :
              GetProp(last.ret, f) = JSArr(RefValuesOf(ThisPred, f))

\* the top-level node has an operator key
HasOperatorKey(v) ==
    \E op \in {"lt", "le", "gt", "ge", "eq", "ne", "and", "or"} : HasOwn(v, op)

\* C15: for a well-formed tree, trivial() is true exactly when the top-level
\* node has no operator key; { and: [ {}, {} ] } is not trivial.
C15_TrivialIffNoOperatorKey ==
    (Returned("trivial") /\ WellFormed(ThisPred)) =>
        last.err = Ok /\ last.ret = JSBool(~HasOperatorKey(ThisPred))

\* trivial() returned false for { and: [ {}, {} ] }
C15_Witness ==
    /\ Returned("trivial")
    /\ ThisPred = Log("and", <<TrivialPred, TrivialPred>>)
    /\ last.ret = JSBool(FALSE)

\* the tree with the field of every leaf replaced by the value that the
\* mapping has for it: same shape, operators and constants
RECURSIVE RefSubst(_, _)
RefSubst(v, mapping) ==
    IF IsTrivialNode(v) THEN v
    ELSE IF IsLogicalNode(v)
    THEN Log(LeafOp(v), [i \in 1..Len(Children(v)) |-> RefSubst(Children(v)[i], mapping)])
    ELSE JSObj(<<Prop(LeafOp(v), JSArr(<<pluck(mapping, LeafField(v)), LeafConstant(v)>>))>>)

\* the reference C-style rendering with the text of the mapping's value in
\* the place of each field name
RECURSIVE RefCStyleWith(_, _)
RECURSIVE RefCStyleWithOperands(_, _, _)
RefCStyleWithOperands(v, mapping, i) ==
    "(" \o RefCStyleWith(Children(v)[i], mapping) \o ")"
      \o (IF i = Len(Children(v)) THEN ""
          ELSE " " \o RefToken(LeafOp(v)) \o " " \o RefCStyleWithOperands(v, mapping, i + 1))

RefCStyleWith(v, mapping) ==
    IF IsTrivialNode(v) THEN "1"
    ELSE IF IsLogicalNode(v) THEN RefCStyleWithOperands(v, mapping, 1)
    ELSE JSToString(pluck(mapping, LeafField(v))) \o " " \o RefToken(LeafOp(v)) \o " "
            \o RefConstant(LeafConstant(v))

\* C16: replaceFields on a validated predicate, given a mapping with a value
\* for every field of the tree, returns a new Predicate whose tree is the
\* receiver's with every field slot holding the mapping's value, and whose
\* C-style string is the receiver's with the values in the place of the
\* field names; given a mapping that lacks a field, it raises "no
\* translation" and returns nothing.
C16_ReplaceFieldsSubstitutesAll ==
    (Returned("replaceFields") /\ WellFormed(ThisPred)) =>
        IF SuppliesAll(ThisPred, last.arg)
        THEN /\ last.err = Ok
             /\ last.ret.t = "Predicate"
             /\ last.ret.p_pred # p.p_pred
             /\ heap[last.ret.p_pred.addr] = RefSubst(ThisPred, last.arg)
             /\ Predicate_toCStyleString(heap, last.ret) = RefCStyleWith(ThisPred, last.arg)
        ELSE /\ last.err = "no translation for field"
             /\ last.ret = JSUndef

\* replaceFields returned { and: [ { lt: [ n, n ] }, { ne: [ "x", "x" ] } ] }
\* for the mapping { a: n, b: "x", ... }
C16_Witness ==
    /\ Returned("replaceFields")
    /\ ThisPred = Log("and", <<Rel("lt", "a", JSNum(MaxNum)), Rel("ne", "b", JSStr("x"))>>)
    /\ pluck(last.arg, "a") = JSNum(MaxNum)
    /\ pluck(last.arg, "b") = JSStr("x")
    /\ last.err = Ok
    /\ heap[last.ret.p_pred.addr] =
         Log("and", <<JSObj(<<Prop("lt", JSArr(<<JSNum(MaxNum), JSNum(MaxNum)>>))>>),
                      JSObj(<<Prop("ne", JSArr(<<JSStr("x"), JSStr("x")>>))>>)>>)

\* the mapping sends every field name of the tree to itself
IsIdentityFor(mapping, v) ==
    \A f \in RefFieldNames(v) : HasOwn(mapping, f) /\ GetProp(mapping, f) = JSStr(f)

\* the two Predicates have the same eval outcome for the assignment: the
\* same boolean, or an error for both
SameEval(h, self, other, obj) ==
    LET a == Predicate_eval(h, self, obj)
        b == Predicate_eval(h, other, obj)
    IN  /\ (a.err = Ok) <=> (b.err = Ok)
        /\ a.ret = b.ret

\* C17: replaceFields of a validated predicate with the mapping of each of
\* its field names to itself returns a Predicate that has, for every
\* assignment, the eval outcome of the receiver.
C17_IdentityRoundTrip ==
    (Returned("replaceFields") /\ WellFormed(ThisPred) /\ IsIdentityFor(last.arg, ThisPred)) =>
        /\ last.err = Ok
        /\ last.ret.t = "Predicate"
        /\ \A obj \in InputValues : SameEval(heap, p, last.ret, obj)

\* replaceFields with the identity mapping returned a Predicate for
\* { and: [ { lt: [ a, n ] }, { ne: [ b, x ] } ] }, for which eval is true
\* for one assignment, false for another and an error for a third
C17_Witness ==
    /\ Returned("replaceFields")
    /\ ThisPred = Log("and", <<Rel("lt", "a", JSNum(MaxNum)), Rel("ne", "b", JSStr("x"))>>)
    /\ IsIdentityFor(last.arg, ThisPred)
    /\ last.err = Ok
    /\ \E obj \in InputValues : Predicate_eval(heap, last.ret, obj).ret = JSBool(TRUE)
    /\ \E obj \in InputValues : Predicate_eval(heap, last.ret, obj).ret = JSBool(FALSE)
    /\ \E obj \in InputValues : Predicate_eval(heap, last.ret, obj).err # Ok

\* a counter of stats()
Stat(s, name) == GetProp(PredicateStream_stats(s), name).n

\* the invalid_object events emitted so far
InvalidObjectEvents == SelectSeq(events, LAMBDA e : e.name = "invalid_object")

\* the counters account for the records written so far
StatsAccount ==
    stream # JSUndef =>
        /\ written = <<>> =>
              PredicateStream_stats(stream) =
                  JSObj(<<Prop("ninputs", JSNum(0)), Prop("nerrors", JSNum(0)),
                          Prop("nfilteredout", JSNum(0))>>)
        /\ Stat(stream, "ninputs") = Len(written)
        /\ Stat(stream, "nerrors") = Len(InvalidObjectEvents)
        /\ Stat(stream, "ninputs") =
              Len(pushed) + Stat(stream, "nerrors") + Stat(stream, "nfilteredout")

\* one record has one outcome: pushed, invalid or filtered out
OneOutcome ==
    LET record == written'[Len(written')]
        isPushed == pushed' = Append(pushed, record)
        isInvalid == /\ Stat(stream', "nerrors") = Stat(stream, "nerrors") + 1
                     /\ Len(events') = Len(events) + 1
                     /\ events'[Len(events')].name = "invalid_object"
        isFiltered == Stat(stream', "nfilteredout") = Stat(stream, "nfilteredout") + 1
    IN  /\ Stat(stream', "ninputs") = Stat(stream, "ninputs") + 1
        /\ isPushed \/ isInvalid \/ isFiltered
        /\ ~(isPushed /\ isInvalid) /\ ~(isPushed /\ isFiltered) /\ ~(isInvalid /\ isFiltered)
        /\ ~isPushed => pushed' = pushed
        /\ ~isInvalid => events' = events /\ Stat(stream', "nerrors") = Stat(stream, "nerrors")
        /\ ~isFiltered => Stat(stream', "nfilteredout") = Stat(stream, "nfilteredout")

StatsStep ==
    (stream # JSUndef /\ stream' # JSUndef) =>
        /\ Stat(stream', "ninputs") >= Stat(stream, "ninputs")
        /\ Stat(stream', "nerrors") >= Stat(stream, "nerrors")
        /\ Stat(stream', "nfilteredout") >= Stat(stream, "nfilteredout")
        /\ written' # written => OneOutcome

\* C18: the stats of a predicate stream start at zero; every record written
\* adds one to ninputs and has one outcome, pushed downstream, counted in
\* nerrors with an invalid_object event, or counted in nfilteredout; so
\* ninputs = records pushed + nerrors + nfilteredout, and no counter
\* decreases.
C18_StatsAccountForEveryRecord == [][StatsStep /\ StatsAccount']_vars

\* stats() returned { ninputs: 3, nerrors: 1, nfilteredout: 1 } after three
\* records of which one was pushed
C18_Witness ==
    /\ pc = "streaming"
    /\ last.op = "stats"
    /\ last.ret = JSObj(<<Prop("ninputs", JSNum(3)), Prop("nerrors", JSNum(1)),
                          Prop("nfilteredout", JSNum(1))>>)
    /\ Len(pushed) = 1

\* C19: when the evaluation of a record fails, the stream emits one
\* invalid_object event with the record, the error of the evaluation and
\* the number of records written so far, this one included, which is
\* ninputs at that moment; it emits no event otherwise.
C19_InvalidObjectCarriesOrdinal ==
    [][written' # written =>
        LET record == written'[Len(written')]
            r == Predicate_eval(heap, stream.ps_predicate, record)
        IN  IF r.err # Ok
            THEN /\ events' = Append(events,
                        Event("invalid_object", record, r.err, Len(written')))
                 /\ Stat(stream', "ninputs") = Len(written')
            ELSE events' = events]_vars

\* the third record written, after one that passed and one that was
\* filtered out, is the subject of the only event, with ordinal 3
C19_Witness ==
    /\ pc = "streaming"
    /\ Len(written) = 3
    /\ pushed = <<written[1]>>
    /\ Stat(stream, "nfilteredout") = 1
    /\ events = <<Event("invalid_object", written[3], "no translation for field", 3)>>

\* the predicate of the stream evaluates true for the record
Passes(record) ==
    LET r == Predicate_eval(heap, stream.ps_predicate, record) IN
    r.err = Ok /\ r.ret = JSBool(TRUE)

\* C20: the records pushed downstream are the records written for which the
\* predicate evaluates true, in the order written; a record that fails or
\* evaluates false raises no 'error' event and does not stop the stream:
\* every record written is evaluated.
C20_PushedAreThePassingRecords ==
    stream # JSUndef =>
        /\ pushed = SelectSeq(written, Passes)
        /\ \A i \in 1..Len(events) : events[i].name # "error"
        /\ Stat(stream, "ninputs") = Len(written)

\* the first record written failed, the second was filtered out, and the
\* third, which passes, was pushed
C20_Witness ==
    /\ pc = "streaming"
    /\ Len(written) = 3
    /\ Predicate_eval(heap, stream.ps_predicate, written[1]).err # Ok
    /\ Predicate_eval(heap, stream.ps_predicate, written[2]).ret = JSBool(FALSE)
    /\ Passes(written[3])
    /\ pushed = <<written[3]>>

\* the outcome of the last call: "true", "false" or "error"
Outcome(call) ==
    IF call.err # Ok THEN "error" ELSE IF call.ret = JSBool(TRUE) THEN "true" ELSE "false"

\* the outcome of a tree of operator nodes under an assignment that has a
\* value for every field, evaluated left to right: a logical node stops at
\* the first operand that decides it or fails; a leaf of lt, le, gt, ge
\* fails when its value or its constant is not a number
RECURSIVE RefOutcome(_, _)
RECURSIVE RefOutcomeFrom(_, _, _)
RefOutcomeFrom(v, obj, i) ==
    LET deciding == IF LeafOp(v) = "and" THEN "false" ELSE "true"
        other == IF LeafOp(v) = "and" THEN "true" ELSE "false"
    IN  IF i > Len(Children(v)) THEN other
        ELSE LET o == RefOutcome(Children(v)[i], obj) IN
             IF o = other THEN RefOutcomeFrom(v, obj, i + 1) ELSE o

RefOutcome(v, obj) ==
    IF IsLogicalNode(v) THEN RefOutcomeFrom(v, obj, 1)
    ELSE IF IsOrdering(LeafOp(v))
            /\ (pluck(obj, LeafField(v)).t # "number" \/ LeafConstant(v).t # "number")
    THEN "error"
    ELSE IF RefCompare(LeafOp(v), pluck(obj, LeafField(v)), LeafConstant(v))
    THEN "true" ELSE "false"

\* C21: eval of a logical node goes through its operands left to right and
\* stops at the first that decides it: a failure that a later operand would
\* raise is not raised.
C21_ShortCircuit ==
    (Returned("eval") /\ WellFormed(ThisPred) /\ AllOperatorNodes(ThisPred)
        /\ SuppliesAll(ThisPred, last.arg)) =>
        Outcome(last) = RefOutcome(ThisPred, last.arg)

\* eval returned true for { or: [ { ne: [ b, x ] }, { ge: [ b, x ] } ] } with
\* b = 0: the second operand, which fails when evaluated, was not evaluated
C21_Witness ==
    /\ Returned("eval")
    /\ ThisPred = Log("or", <<Rel("ne", "b", JSStr("x")), Rel("ge", "b", JSStr("x"))>>)
    /\ pluck(last.arg, "b") = JSNum(0)
    /\ RefOutcome(Children(ThisPred)[2], last.arg) = "error"
    /\ last.ret = JSBool(TRUE)

\* the leaf applies lt, le, gt or ge to a value or a constant that is not a
\* number
NonNumberOrdering(leaf, obj) ==
    /\ IsOrdering(LeafOp(leaf))
    /\ pluck(obj, LeafField(leaf)).t # "number" \/ LeafConstant(leaf).t # "number"

\* the evaluation, left to right, gets to such a leaf: in a logical node,
\* no operand before it decides the node
RECURSIVE ReachesNonNumberOrdering(_, _)
ReachesNonNumberOrdering(v, obj) ==
    IF IsTrivialNode(v) THEN FALSE
    ELSE IF IsLogicalNode(v)
    THEN \E i \in 1..Len(Children(v)) :
            /\ ReachesNonNumberOrdering(Children(v)[i], obj)
            /\ \A j \in 1..(i - 1) :
                  /\ ~ReachesNonNumberOrdering(Children(v)[j], obj)
                  /\ RefEval(Children(v)[j], obj) = (LeafOp(v) = "and")
    ELSE NonNumberOrdering(v, obj)

\* C22: when the evaluation gets to a leaf of lt, le, gt or ge whose value
\* or constant is not a number, eval raises an error and returns no boolean.
C22_NonNumberOrderingRaises ==
    (Returned("eval") /\ WellFormed(ThisPred)
        /\ ReachesNonNumberOrdering(ThisPred, last.arg)) =>
        last.err # Ok /\ last.ret = JSUndef

\* eval raised an assertion error at the second operand of an "and" whose
\* first operand is true: ge of a string constant, every field supplied
C22_Witness ==
    /\ Returned("eval")
    /\ ThisPred = Log("and", <<Rel("lt", "a", JSNum(MaxNum)), Rel("ge", "b", JSStr("x"))>>)
    /\ pluck(last.arg, "a") = JSNum(0)
    /\ pluck(last.arg, "b") = JSNum(0)
    /\ last.err = "AssertionError"

\* the errors of the syntax pass, and those of the schema checks
SyntaxErrors ==
    { "must be an object", "missing key", "expected one key", "unknown operator",
      "missing operands", "expected array", "array must have 2 elements",
      "expected at least 2 elements in array", "field is not a string",
      "constant is not a string, number, or boolean" }

SchemaErrors ==
    { "unknown type", "operator cannot be applied", "field is not defined",
      "type mismatch" }

\* the nodes of a tree, well-formed or not, that have the shape of a
\* relational leaf, reached through the operand arrays of and/or
RECURSIVE ShapedLeaves(_)
ShapedLeaves(v) ==
    IF v.t # "object" \/ Len(v.props) # 1 THEN {}
    ELSE IF v.props[1].k \in {"and", "or"}
    THEN IF v.props[1].v.t # "array" THEN {}
         ELSE UNION {ShapedLeaves(v.props[1].v.elems[i]) : i \in 1..Len(v.props[1].v.elems)}
    ELSE IF WellFormed(v) THEN {v} ELSE {}

\* the schema rejects the tree: an entry is not string, number or boolean,
\* or a leaf violates the schema
SchemaViolation(v, types) ==
    \/ \E i \in 1..Len(types.props) :
          types.props[i].v \notin {JSStr("string"), JSStr("number"), JSStr("boolean")}
    \/ \E leaf \in ShapedLeaves(v) : LeafViolates(types, leaf)

\* C23: for a tree with a syntax violation and a schema violation,
\* createPredicate raises the syntax error, wherever the two violations are.
C23_SyntaxBeforeSchema ==
    (Returned("createPredicate") /\ ~WellFormed(InPred) /\ in_types.t = "ref"
        /\ SchemaViolation(InPred, InTypes)) =>
        last.err \in SyntaxErrors /\ p = JSUndef

\* createPredicate raised the syntax error of the second operand of an
\* "and" whose first operand, lt of a string constant, violates the schema
C23_Witness ==
    /\ Returned("createPredicate")
    /\ InPred = Log("and", <<Rel("lt", "a", JSStr("x")),
                            JSObj(<<Prop("eq", JSArr(<<JSStr("a")>>))>>)>>)
    /\ in_types.t = "ref"
    /\ LeafViolates(InTypes, Children(InPred)[1])
    /\ last.err = "array must have 2 elements"

\* the relational leaves of a well-formed tree, left to right, depth first
RECURSIVE RefLeafSeq(_)
RECURSIVE RefLeafSeqFrom(_, _)
RefLeafSeqFrom(v, i) ==
    IF i > Len(Children(v)) THEN <<>>
    ELSE RefLeafSeq(Children(v)[i]) \o RefLeafSeqFrom(v, i + 1)

RefLeafSeq(v) ==
    IF IsTrivialNode(v) THEN <<>>
    ELSE IF IsLogicalNode(v) THEN RefLeafSeqFrom(v, 1)
    ELSE <<v>>

\* the first leaf, in that order, that violates the schema
RefFirstViolating(v, types) ==
    LET leaves == RefLeafSeq(v)
        first == CHOOSE i \in 1..Len(leaves) :
                    /\ LeafViolates(types, leaves[i])
                    /\ \A j \in 1..(i - 1) : ~LeafViolates(types, leaves[j])
    IN  leaves[first]

\* the node by itself has the shape of a predicate, whatever its operands are
NodeShaped(v) ==
    /\ v.t \in {"object", "array"}
    /\ \/ Len(KeysOf(v)) = 0
       \/ /\ v.t = "object"
          /\ Len(v.props) = 1
          /\ v.props[1].k \in {"lt", "le", "gt", "ge", "eq", "ne", "and", "or"}
          /\ v.props[1].v.t = "array"
          /\ IF v.props[1].k \in {"and", "or"}
             THEN Len(v.props[1].v.elems) >= 2
             ELSE /\ Len(v.props[1].v.elems) = 2
                  /\ v.props[1].v.elems[1].t = "string"
                  /\ v.props[1].v.elems[2].t \in {"string", "number", "boolean"}

\* the first malformed node of a tree that is not well-formed, depth first
RECURSIVE RefFirstMalformed(_)
RefFirstMalformed(v) ==
    IF ~NodeShaped(v) THEN v
    ELSE LET first == CHOOSE i \in 1..Len(Children(v)) :
                        /\ ~WellFormed(Children(v)[i])
                        /\ \A j \in 1..(i - 1) : WellFormed(Children(v)[j])
         IN  RefFirstMalformed(Children(v)[first])

\* C24: createPredicate raises one error and constructs no Predicate: for a
\* tree that is not well-formed, a syntax error that names the first
\* malformed node in depth-first order; for a well-formed tree with leaves
\* that violate a schema of string, number and boolean entries, a schema
\* error that names the first violating leaf from left to right, depth first.
C24_FirstViolationOnly ==
    Returned("createPredicate") =>
        /\ ~WellFormed(InPred) =>
              /\ last.err \in SyntaxErrors
              /\ last.pred = RefFirstMalformed(InPred)
              /\ p = JSUndef
        /\ (WellFormed(InPred) /\ ValidTypes
              /\ \E leaf \in RefLeaves(InPred) : LeafViolates(InTypes, leaf)) =>
              /\ last.err \in SchemaErrors
              /\ last.pred = RefFirstViolating(InPred, InTypes)
              /\ p = JSUndef

\* createPredicate raised the type mismatch of the first operand of an
\* "and" whose second operand applies ge to a string
C24_Witness ==
    /\ Returned("createPredicate")
    /\ InPred = Log("and", <<Rel("lt", "a", JSNum(MaxNum)), Rel("ge", "b", JSStr("x"))>>)
    /\ ValidTypes
    /\ LeafViolates(InTypes, Children(InPred)[1])
    /\ LeafViolates(InTypes, Children(InPred)[2])
    /\ last.err = "type mismatch"
    /\ last.pred = Rel("lt", "a", JSNum(MaxNum))
    /\ p = JSUndef

\* createPredicate raised the error of the second operand of an "or" whose
\* third operand is malformed too
C24_WitnessSyntax ==
    /\ Returned("createPredicate")
    /\ InPred = Log("or", <<Rel("eq", "a", JSNum(0)),
                           JSObj(<<Prop("eq", JSArr(<<JSStr("a")>>))>>),
                           JSNum(MaxNum)>>)
    /\ ~WellFormed(Children(InPred)[2])
    /\ ~WellFormed(Children(InPred)[3])
    /\ last.err = "array must have 2 elements"
    /\ last.pred = Children(InPred)[2]

\* C25: with a schema that has an entry other than string, number or boolean,
\* createPredicate fails for every tree, trivial ones and ones that do not
\* use the entry's field included: with the syntax error if the tree is not
\* well-formed, else with the unknown type, whatever the leaves are.
C25_UnknownTypeRejected ==
    (Returned("createPredicate") /\ in_types.t = "ref" /\ ~ValidTypes) =>
        /\ p = JSUndef
        /\ last.err = IF WellFormed(InPred) THEN "unknown type"
                      ELSE krillPrimValidateSyntax(InPred)
        /\ last.err # Ok

\* createPredicate raised the unknown type of an entry for a trivial predicate
C25_Witness ==
    /\ Returned("createPredicate")
    /\ InPred = TrivialPred
    /\ in_types.t = "ref" /\ ~ValidTypes
    /\ last.err = "unknown type"
    /\ p = JSUndef

\* ... and for a leaf on another field that itself violates the schema
C25_WitnessLeaf ==
    /\ Returned("createPredicate")
    /\ WellFormed(InPred) /\ IsLeaf(InPred)
    /\ in_types.t = "ref" /\ ~ValidTypes
    /\ \A i \in 1..Len(InTypes.props) :
          InTypes.props[i].v = JSStr("numeric") => InTypes.props[i].k # LeafField(InPred)
    /\ LeafViolates(InTypes, InPred)
    /\ last.err = "unknown type"

\* the names that a field name is made of, between its dots
RefPath(name) == IF name = "n.h" THEN <<"n", "h">> ELSE <<name>>

\* the mapping has name as a key of its own
RefHasKey(mapping, name) ==
    mapping.t = "object" /\ \E i \in 1..Len(mapping.props) : mapping.props[i].k = name

RefValueOfKey(mapping, name) ==
    mapping.props[CHOOSE i \in 1..Len(mapping.props) : mapping.props[i].k = name].v

\* the property that the names of path lead to, from one object to the next
RECURSIVE RefNested(_, _)
RefNested(mapping, path) ==
    IF path = <<>> THEN mapping
    ELSE IF ~RefHasKey(mapping, Head(path)) THEN JSUndef
    ELSE RefNested(RefValueOfKey(mapping, Head(path)), Tail(path))

\* the value of a field: that of the key of this name if there is one, else
\* that of the path of nested properties if the name has dots
RefLookup(mapping, name) ==
    IF RefHasKey(mapping, name) THEN RefValueOfKey(mapping, name)
    ELSE IF Len(RefPath(name)) > 1 THEN RefNested(mapping, RefPath(name))
    ELSE JSUndef

\* the tree with the field of every leaf replaced by its value
RECURSIVE RefResolved(_, _)
RefResolved(v, mapping) ==
    IF IsTrivialNode(v) THEN v
    ELSE IF IsLogicalNode(v)
    THEN Log(LeafOp(v), [i \in 1..Len(Children(v)) |-> RefResolved(Children(v)[i], mapping)])
    ELSE JSObj(<<Prop(LeafOp(v), JSArr(<<RefLookup(mapping, LeafField(v)), LeafConstant(v)>>))>>)

RefAllResolve(v, mapping) ==
    \A f \in RefFieldNames(v) : RefLookup(mapping, f) # JSUndef

\* C26: replaceFields and eval of a validated predicate take as the value of
\* a field that of the key of this name, else that of the path of nested
\* properties that a name with dots spells; they raise "no translation"
\* exactly when some field has no defined value this way, and otherwise work
\* on the tree with these values in the place of the fields.
C26_DirectKeyThenPath ==
    /\ (Returned("replaceFields") /\ WellFormed(ThisPred)) =>
          IF RefAllResolve(ThisPred, last.arg)
          THEN /\ last.err = Ok
               /\ heap[last.ret.p_pred.addr] = RefResolved(ThisPred, last.arg)
          ELSE last.err = "no translation for field"
    /\ (Returned("eval") /\ WellFormed(ThisPred) /\ ~IsTrivialNode(ThisPred)) =>
          IF RefAllResolve(ThisPred, last.arg)
          THEN /\ last.err = krillPrimEval(RefResolved(ThisPred, last.arg)).err
               /\ last.err = Ok =>
                    last.ret = JSBool(krillPrimEval(RefResolved(ThisPred, last.arg)).val)
          ELSE last.err = "no translation for field"

\* eval of { eq: [ "n.h", "x" ] } returned true for an assignment that has no
\* key "n.h" and has "x" at n.h
C26_Witness ==
    /\ Returned("eval")
    /\ ThisPred = Rel("eq", "n.h", JSStr("x"))
    /\ ~RefHasKey(last.arg, "n.h")
    /\ RefNested(last.arg, <<"n", "h">>) = JSStr("x")
    /\ last.err = Ok
    /\ last.ret = JSBool(TRUE)

\* ... and for one that has "x" at the key "n.h" and "y" at n.h
C26_WitnessDirect ==
    /\ Returned("eval")
    /\ ThisPred = Rel("eq", "n.h", JSStr("x"))
    /\ RefHasKey(last.arg, "n.h")
    /\ RefNested(last.arg, <<"n", "h">>) = JSStr("y")
    /\ last.ret = JSBool(TRUE)

\* ... and "no translation" for one whose key "n.h" is undefined
C26_WitnessUndefinedKey ==
    /\ Returned("replaceFields")
    /\ ThisPred = Rel("eq", "n.h", JSStr("x"))
    /\ RefHasKey(last.arg, "n.h")
    /\ RefNested(last.arg, <<"n", "h">>) = JSStr("x")
    /\ last.err = "no translation for field"

\* what the operations of a Predicate return or raise
Results(h, self) ==
    [trivial |-> Predicate_trivial(h, self),
     cstyle |-> Predicate_toCStyleString(h, self),
     ldap |-> Predicate_toLDAPFilterString(h, self),
     fields |-> Predicate_fields(h, self),
     fieldsAndValues |-> Predicate_fieldsAndValues(h, self),
     eval |-> [obj \in InputValues |->
                 <<Predicate_eval(h, self, obj).err, Predicate_eval(h, self, obj).ret>>]]

\* C27: the results of a Predicate are those of the tree that createPredicate
\* was given: a later change of that tree by the caller changes none of
\* them; and no call changes the caller's tree.
C27_InputIsSnapshot ==
    [][/\ (p # JSUndef /\ p' = p) => Results(heap', p) = Results(heap, p)
       /\ pc' = "returned" => heap'["in_pred"] = heap["in_pred"]]_vars

\* eval of the Predicate of { eq: [ "a", n ] } returned true for { a: n }
\* after the caller had set the field of its tree to "z"
C27_Witness ==
    /\ Returned("eval")
    /\ ThisPred = Rel("eq", "a", JSNum(MaxNum))
    /\ InPred = Rel("eq", "z", JSNum(MaxNum))
    /\ last.arg = ObjectOf(JSNum(MaxNum), JSUndef)
    /\ last.ret = JSBool(TRUE)

\* some leaf applies lt, le, gt or ge to a string or a boolean
HasNonNumberConstant(v) ==
    \E leaf \in RefLeaves(v) : IsOrdering(LeafOp(leaf)) /\ LeafConstant(leaf).t # "number"

\* C28: with no schema, or null, createPredicate accepts every well-formed
\* tree, those that apply lt, le, gt or ge to a string or a boolean
\* included, and constructs the Predicate of that tree; eval of such a
\* Predicate, given a value for every field and numbers for the fields of
\* lt, le, gt, ge, raises an error exactly when the evaluation gets to such
\* a leaf.
C28_NoSchemaNoTypeCheck ==
    /\ (Returned("createPredicate") /\ WellFormed(InPred)
           /\ in_types.t \in {"undefined", "null"}) =>
          /\ last.err = Ok
          /\ p.t = "Predicate"
          /\ p.p_types = JSNull
          /\ ThisPred = InPred
    /\ (Returned("eval") /\ p.p_types = JSNull /\ WellFormed(ThisPred)
           /\ AllOperatorNodes(ThisPred)
           /\ SuppliesAll(ThisPred, last.arg) /\ SuppliesNumbers(ThisPred, last.arg)) =>
          /\ (last.err # Ok) <=> ReachesNonNumberOrdering(ThisPred, last.arg)
          /\ last.err # Ok => last.err = "AssertionError" /\ HasNonNumberConstant(ThisPred)

\* eval of the Predicate of { lt: [ "a", true ] }, built with no schema,
\* raised an assertion error for an assignment with a number for a
C28_Witness ==
    /\ Returned("eval")
    /\ in_types.t \in {"undefined", "null"}
    /\ p.p_types = JSNull
    /\ ThisPred = Rel("lt", "a", JSBool(TRUE))
    /\ ThisPred = InPred
    /\ pluck(last.arg, "a").t = "number"
    /\ last.err = "AssertionError"

\* ... and eval of { or: [ { ne: [ b, x ] }, { ge: [ b, x ] } ] } returned true
\* where the first operand is true
C28_WitnessNotEvaluated ==
    /\ Returned("eval")
    /\ p.p_types = JSNull
    /\ ThisPred = Log("or", <<Rel("ne", "b", JSStr("x")), Rel("ge", "b", JSStr("x"))>>)
    /\ pluck(last.arg, "b") = JSNum(0)
    /\ last.ret = JSBool(TRUE)

\* the two assignments have the same value, or none, for every field of the
\* tree
AgreeOn(v, obj, other) ==
    \A f \in RefFieldNames(v) : RefLookup(obj, f) = RefLookup(other, f)

\* the call has the error and the result of r
SameOutcome(r, call) == r.err = call.err /\ r.ret = call.ret

\* C29: eval has the same outcome, the same boolean or the same error, for
\* two assignments with the same values for the fields of the tree, whatever
\* else is in them; eval of the trivial predicate returns true for every
\* assignment.
C29_EvalDependsOnFieldsOnly ==
    (Returned("eval") /\ WellFormed(ThisPred)) =>
        /\ \A other \in InputValues :
              (other # last.arg /\ AgreeOn(ThisPred, last.arg, other)) =>
                 SameOutcome(Predicate_eval(heap, p, other), last)
        /\ IsTrivialNode(ThisPred) => last.err = Ok /\ last.ret = JSBool(TRUE)

\* eval of { eq: [ "n.h", "x" ] } returned true for an assignment with "x" at
\* n.h, as it does for another one that has "x" at the key "n.h", another
\* value at n.h, and other keys
C29_Witness ==
    /\ Returned("eval")
    /\ ThisPred = Rel("eq", "n.h", JSStr("x"))
    /\ ~RefHasKey(last.arg, "n.h")
    /\ last.ret = JSBool(TRUE)
    /\ \E other \in InputValues :
          /\ RefHasKey(other, "n.h")
          /\ RefNested(other, <<"n", "h">>) # RefLookup(other, "n.h")
          /\ AgreeOn(ThisPred, last.arg, other)
          /\ Predicate_eval(heap, p, other).ret = JSBool(TRUE)

\* eval of the trivial predicate returned true for an assignment with keys
C29_WitnessTrivial ==
    /\ Returned("eval")
    /\ ThisPred = TrivialPred
    /\ RefHasKey(last.arg, "a")
    /\ last.ret = JSBool(TRUE)

\* every leaf of the tree is an eq or an ne
OnlyEquality(v) == \A leaf \in RefLeaves(v) : LeafOp(leaf) \in {"eq", "ne"}

\* == of a value that is a primitive or null with a string, number or
\* boolean: null equals none of them, two of one type are equal when the
\* same, two of different types when their numbers are equal
RefLooseEqual(a, b) ==
    IF a.t = "null" THEN FALSE
    ELSE IF a.t = b.t THEN a = b
    ELSE /\ ~RefToNumber(a).nan
         /\ ~RefToNumber(b).nan
         /\ RefToNumber(a).n = RefToNumber(b).n

\* the value of a tree of eq, ne, and, or under an assignment
RECURSIVE RefEqualityEval(_, _)
RefEqualityEval(v, obj) ==
    IF LeafOp(v) = "and"
    THEN \A i \in 1..Len(Children(v)) : RefEqualityEval(Children(v)[i], obj)
    ELSE IF LeafOp(v) = "or"
    THEN \E i \in 1..Len(Children(v)) : RefEqualityEval(Children(v)[i], obj)
    ELSE (LeafOp(v) = "eq") <=> RefLooseEqual(RefLookup(obj, LeafField(v)), LeafConstant(v))

\* the leaf of operator op on the value and the constant of leaf
ResolvedAs(op, leaf, obj) ==
    JSObj(<<Prop(op, JSArr(<<RefLookup(obj, LeafField(leaf)), LeafConstant(leaf)>>))>>)

\* C30: eval of a predicate of eq, ne, and, or nodes only, with or without a
\* schema, given a value for every field, returns a boolean whatever the
\* types of the values are: that of the tree with == for eq and its negation
\* for ne; on the operands of each leaf, ne is the negation of eq.
C30_EqualityIgnoresSchema ==
    (Returned("eval") /\ WellFormed(ThisPred) /\ AllOperatorNodes(ThisPred)
        /\ OnlyEquality(ThisPred) /\ RefAllResolve(ThisPred, last.arg)) =>
        /\ last.err = Ok
        /\ last.ret = JSBool(RefEqualityEval(ThisPred, last.arg))
        /\ \A leaf \in RefLeaves(ThisPred) :
              /\ krillPrimEval(ResolvedAs("eq", leaf, last.arg)).err = Ok
              /\ krillPrimEval(ResolvedAs("ne", leaf, last.arg)).err = Ok
              /\ krillPrimEval(ResolvedAs("ne", leaf, last.arg)).val
                    = ~krillPrimEval(ResolvedAs("eq", leaf, last.arg)).val

\* eval of { eq: [ "a", 1 ] }, built with a schema that declares a a number,
\* returned true for the string "1"
C30_Witness ==
    /\ Returned("eval")
    /\ ThisPred = Rel("eq", "a", JSNum(1))
    /\ p.p_types.t = "ref"
    /\ GetProp(heap[p.p_types.addr], "a") = JSStr("number")
    /\ RefLookup(last.arg, "a") = JSStr("1")
    /\ last.ret = JSBool(TRUE)


====
